---- MODULE Spec2Model ----
(***************************************************************************)
(* Model of facturx-fr: the invoice lifecycle state machine                *)
(* (lifecycle/manager.py), the CDAR message codec (lifecycle/cdar.py), the *)
(* e-reporting manager (ereporting/reporter.py) and the in-memory platform *)
(* connector (pdp/connectors/memory.py).                                   *)
(***************************************************************************)
EXTENDS Integers, Sequences, FiniteSets, TLC

VARIABLES
    initial_status,   \* LifecycleManager.__init__'s initial_status argument
    status,           \* LifecycleManager.status
    history,          \* LifecycleManager.history
    call,             \* the transition call in progress, None between calls
    result,           \* outcome of the last completed call: raised or returned
    accepted,         \* targets of the calls that returned, in call order
    now               \* last reading of the wall clock, datetime.now(UTC)

VARIABLES
    cdar_message,     \* the CDARMessage handed to CDARGenerator.generate_xml
    cdar_xml,         \* the document on the wire, as the tree the parser reads
    cdar_tampered,    \* number of elements removed from or altered in cdar_xml
    cdar_parsed       \* outcome of CDARParser.parse(cdar_xml): raised or returned

VARIABLES
    er_seller_siren,  \* EReporter.seller_siren
    er_vat_regime,    \* EReporter.vat_regime
    er_call,          \* the last reporter operation called, with its argument
    er_result         \* what that operation raised or returned

VARIABLES
    pdp_invoices,     \* MemoryPDP._invoices: identifier -> _StoredInvoice
    pdp_counter,      \* MemoryPDP._counter
    pdp_clock,        \* what datetime.now(timezone.utc) reads during the calls
    pdp_call,         \* the last connector operation called, with its arguments
    pdp_response,     \* what that operation raised or returned
    pdp_issued,       \* identifiers returned by submit / add_received_invoice
    pdp_accepted      \* per identifier, targets of the update_status calls that returned

VARIABLES
    pdp_tasks,        \* the update_status coroutines handed to the event loop together
    threads,          \* per thread, its position in LifecycleManager.transition
    thr_log           \* the calls the threads' validations let through, in that order

lcVars == <<initial_status, status, history, call, result, accepted, now>>

cdarVars == <<cdar_message, cdar_xml, cdar_tampered, cdar_parsed>>

erVars == <<er_seller_siren, er_vat_regime, er_call, er_result>>

pdpVars == <<pdp_invoices, pdp_counter, pdp_clock, pdp_call, pdp_response, pdp_issued, pdp_accepted>>

concVars == <<pdp_tasks, threads, thr_log>>

vars == <<lcVars, cdarVars, erVars, pdpVars, concVars>>

\* what a LifecycleManager operation leaves alone
notLcVars == <<cdarVars, erVars, pdpVars, concVars>>

\* what a CDAR operation leaves alone
notCdarVars == <<lcVars, erVars, pdpVars, concVars>>

\* what an EReporter operation leaves alone
notErVars == <<lcVars, cdarVars, pdpVars, concVars>>

\* what a MemoryPDP operation leaves alone
notPdpVars == <<lcVars, cdarVars, erVars, concVars>>

\* ------------------------------------------------------------------------
\* Bounds
\* ------------------------------------------------------------------------

\* longest history the model lets a manager accumulate
MaxHistory == 2

\* ------------------------------------------------------------------------
\* Optional values: None is the empty tuple, Some(v) a one-element tuple
\* ------------------------------------------------------------------------

None == <<>>

Some(v) == <<v>>

\* Strings are sequences of characters; "" is the empty sequence
EmptyStr == <<>>

\* Python truthiness of an optional string: None and "" are falsy
Truthy(s) == s /= None /\ s[1] /= EmptyStr

\* ------------------------------------------------------------------------
\* models/enums.py
\* ------------------------------------------------------------------------

InvoiceStatus_WithoutCompletee ==
    { "DEPOSEE", "REJETEE_EMISSION", "REFUSEE", "REJETEE_RECEPTION", "ENCAISSEE",
      "EMISE", "RECUE", "MISE_A_DISPOSITION", "PRISE_EN_CHARGE", "APPROUVEE",
      "PARTIELLEMENT_APPROUVEE", "EN_LITIGE", "SUSPENDUE", "PAIEMENT_TRANSMIS" }

InvoiceStatus ==
    { "DEPOSEE", "REJETEE_EMISSION", "REFUSEE", "REJETEE_RECEPTION", "ENCAISSEE",
      "EMISE", "RECUE", "MISE_A_DISPOSITION", "PRISE_EN_CHARGE", "APPROUVEE",
      "PARTIELLEMENT_APPROUVEE", "EN_LITIGE", "SUSPENDUE", "PAIEMENT_TRANSMIS",
      "COMPLETEE" }

\* the wire code of each status (the StrEnum value)
StatusValue ==
    [ DEPOSEE |-> <<"2", "0", "0">>, REJETEE_EMISSION |-> <<"2", "0", "9">>,
      REFUSEE |-> <<"2", "1", "0">>, REJETEE_RECEPTION |-> <<"2", "1", "2">>,
      ENCAISSEE |-> <<"2", "1", "3">>, EMISE |-> <<"2", "0", "1">>,
      RECUE |-> <<"2", "0", "2">>, MISE_A_DISPOSITION |-> <<"2", "0", "3">>,
      PRISE_EN_CHARGE |-> <<"2", "0", "4">>, APPROUVEE |-> <<"2", "0", "5">>,
      PARTIELLEMENT_APPROUVEE |-> <<"2", "0", "6">>, EN_LITIGE |-> <<"2", "0", "7">>,
      SUSPENDUE |-> <<"2", "0", "8">>, PAIEMENT_TRANSMIS |-> <<"2", "1", "1">>,
      COMPLETEE |-> <<"2", "1", "4">> ]

StatusCategory == { "mandatory", "recommended" }

CDARRoleCode == { "BY", "SE", "DL", "WK", "DFH" }

\* ------------------------------------------------------------------------
\* lifecycle/manager.py: the static tables
\* ------------------------------------------------------------------------

TRANSITIONS_SecondCycle ==
    [ DEPOSEE |-> <<"EMISE", "REJETEE_EMISSION">>,
      EMISE |-> <<"RECUE", "REJETEE_RECEPTION">>,
      RECUE |-> <<"MISE_A_DISPOSITION", "REJETEE_RECEPTION">>,
      MISE_A_DISPOSITION |-> <<"PRISE_EN_CHARGE", "REJETEE_RECEPTION">>,
      PRISE_EN_CHARGE |-> <<"APPROUVEE", "PARTIELLEMENT_APPROUVEE", "REFUSEE",
                            "EN_LITIGE", "SUSPENDUE">>,
      APPROUVEE |-> <<"PAIEMENT_TRANSMIS", "ENCAISSEE", "EN_LITIGE">>,
      PARTIELLEMENT_APPROUVEE |-> <<"PAIEMENT_TRANSMIS", "REFUSEE", "EN_LITIGE">>,
      EN_LITIGE |-> <<"APPROUVEE", "REFUSEE", "SUSPENDUE">>,
      SUSPENDUE |-> <<"COMPLETEE">>,
      COMPLETEE |-> <<"PRISE_EN_CHARGE">>,
      PAIEMENT_TRANSMIS |-> <<"ENCAISSEE">>,
      REJETEE_EMISSION |-> <<>>,
      REJETEE_RECEPTION |-> <<>>,
      REFUSEE |-> <<>>,
      ENCAISSEE |-> <<>> ]

\* TRANSITIONS: status -> list of the allowed targets
TRANSITIONS ==
    [ DEPOSEE |-> <<"EMISE", "REJETEE_EMISSION">>,
      EMISE |-> <<"RECUE", "REJETEE_RECEPTION">>,
      RECUE |-> <<"MISE_A_DISPOSITION", "REJETEE_RECEPTION">>,
      MISE_A_DISPOSITION |-> <<"PRISE_EN_CHARGE", "REJETEE_RECEPTION">>,
      PRISE_EN_CHARGE |-> <<"APPROUVEE", "PARTIELLEMENT_APPROUVEE", "REFUSEE",
                            "EN_LITIGE", "SUSPENDUE">>,
      APPROUVEE |-> <<"PAIEMENT_TRANSMIS", "ENCAISSEE">>,
      PARTIELLEMENT_APPROUVEE |-> <<"PAIEMENT_TRANSMIS", "REFUSEE", "EN_LITIGE">>,
      EN_LITIGE |-> <<"APPROUVEE", "REFUSEE", "SUSPENDUE">>,
      SUSPENDUE |-> <<"COMPLETEE">>,
      COMPLETEE |-> <<"PRISE_EN_CHARGE">>,
      PAIEMENT_TRANSMIS |-> <<"ENCAISSEE">>,
      REJETEE_EMISSION |-> <<>>,
      REJETEE_RECEPTION |-> <<>>,
      REFUSEE |-> <<>>,
      ENCAISSEE |-> <<>> ]

StatusInfo(category, default_producer, reason_required) ==
    [ category |-> category, default_producer |-> default_producer,
      reason_required |-> reason_required ]

STATUS_METADATA ==
    [ DEPOSEE |-> StatusInfo("mandatory", "WK", FALSE),
      REJETEE_EMISSION |-> StatusInfo("mandatory", "WK", FALSE),
      REFUSEE |-> StatusInfo("mandatory", "BY", TRUE),
      REJETEE_RECEPTION |-> StatusInfo("mandatory", "WK", FALSE),
      ENCAISSEE |-> StatusInfo("mandatory", "SE", FALSE),
      EMISE |-> StatusInfo("recommended", "WK", FALSE),
      RECUE |-> StatusInfo("recommended", "WK", FALSE),
      MISE_A_DISPOSITION |-> StatusInfo("recommended", "WK", FALSE),
      PRISE_EN_CHARGE |-> StatusInfo("recommended", "BY", FALSE),
      APPROUVEE |-> StatusInfo("recommended", "BY", FALSE),
      PARTIELLEMENT_APPROUVEE |-> StatusInfo("recommended", "BY", FALSE),
      EN_LITIGE |-> StatusInfo("recommended", "BY", FALSE),
      SUSPENDUE |-> StatusInfo("recommended", "BY", FALSE),
      PAIEMENT_TRANSMIS |-> StatusInfo("recommended", "BY", FALSE),
      COMPLETEE |-> StatusInfo("recommended", "SE", FALSE) ]

\* elements of a list
Elems(seq) == { seq[i] : i \in 1..Len(seq) }

\* dict.get(key, default)
DictGet(d, key, default) == IF key \in DOMAIN d THEN d[key] ELSE default

TERMINAL_STATUSES_AtMostOne == { s \in DOMAIN TRANSITIONS : Len(TRANSITIONS[s]) <= 1 }

TERMINAL_STATUSES == { s \in DOMAIN TRANSITIONS : TRANSITIONS[s] = <<>> }

\* ------------------------------------------------------------------------
\* lifecycle/manager.py: LifecycleManager
\* ------------------------------------------------------------------------

LifecycleEvent(timestamp, st, reason, reason_code, producer, amount) ==
    [ timestamp |-> timestamp, status |-> st, reason |-> reason,
      reason_code |-> reason_code, producer |-> producer, amount |-> amount ]

CanTransitionFrom_Reversed(s, target) == s \in Elems(DictGet(TRANSITIONS, target, <<>>))

\* target in TRANSITIONS.get(self.status, [])
CanTransitionFrom_AnyKey(s, target) == target \in DOMAIN TRANSITIONS

CanTransitionFrom(s, target) == target \in Elems(DictGet(TRANSITIONS, s, <<>>))

can_transition(target) == CanTransitionFrom(status, target)

is_terminal == status \in TERMINAL_STATUSES

is_mandatory_Recommended(s) ==
    /\ s \in DOMAIN STATUS_METADATA
    /\ STATUS_METADATA[s].category = "recommended"

is_mandatory(s) ==
    /\ s \in DOMAIN STATUS_METADATA
    /\ STATUS_METADATA[s].category = "mandatory"

IsMandatoryEvent(e) == is_mandatory(e.status)

mandatory_events_Unfiltered == history

\* [e for e in self.history if self.is_mandatory(e.status)]
mandatory_events == SelectSeq(history, IsMandatoryEvent)

\* the reason check: metadata and metadata.reason_required and not reason
ReasonMissing_NoneOnly(target, reason) ==
    /\ target \in DOMAIN STATUS_METADATA
    /\ STATUS_METADATA[target].reason_required
    /\ reason = None

ReasonMissing(target, reason) ==
    /\ target \in DOMAIN STATUS_METADATA
    /\ STATUS_METADATA[target].reason_required
    /\ ~Truthy(reason)

\* the two validations of transition, in the order the code makes them
Validate_ReasonFirst(s, target, reason) ==
    IF ReasonMissing(target, reason) THEN "MissingReason"
    ELSE IF ~CanTransitionFrom(s, target) THEN "InvalidTransition"
    ELSE "ok"

Validate(s, target, reason) ==
    IF ~CanTransitionFrom(s, target) THEN "InvalidTransition"
    ELSE IF ReasonMissing(target, reason) THEN "MissingReason"
    ELSE "ok"

\* the producer recorded for an accepted transition
EventProducer_AlwaysDefault(target, producer) ==
    IF target \in DOMAIN STATUS_METADATA
    THEN Some(STATUS_METADATA[target].default_producer)
    ELSE producer

EventProducer(target, producer) ==
    IF producer = None /\ target \in DOMAIN STATUS_METADATA
    THEN Some(STATUS_METADATA[target].default_producer)
    ELSE producer

EventTimestamp_ClockOnly(timestamp, clock) == clock

\* timestamp or datetime.now(UTC), the timestamp of the event
EventTimestamp(timestamp, clock) == IF timestamp = None THEN clock ELSE timestamp[1]

\* self.history.append(event)
HistoryAppend_Front(h, event) == <<event>> \o h

HistoryAppend(h, event) == Append(h, event)

Args(reason, reason_code, producer, amount, timestamp) ==
    [ reason |-> reason, reason_code |-> reason_code, producer |-> producer,
      amount |-> amount, timestamp |-> timestamp ]

Raised(kind) == [ kind |-> kind, event |-> None ]

Returned(e) == [ kind |-> "ok", event |-> Some(e) ]

NoResult == [ kind |-> "none", event |-> None ]

\* LifecycleManager.__init__
InitLifecycle ==
    /\ initial_status \in InvoiceStatus
    /\ status = initial_status
    /\ history = <<>>
    /\ call = None
    /\ result = NoResult
    /\ accepted = <<>>
    /\ now = 0

\* the arguments the callers of the model pass
Motif == <<"m", "o", "t", "i", "f">>

ReasonCode == <<"R", "C">>

TransitionArgs ==
    { Args(None, None, None, None, None),
      Args(Some(EmptyStr), None, None, None, None),
      Args(None, None, Some("SE"), None, None),
      Args(Some(Motif), None, Some("SE"), None, None),
      Args(Some(Motif), Some(ReasonCode), None, Some(100), None) }

\* the single writer calls manager.transition(target, **a); the model issues
\* an accepted call only while the history is shorter than MaxHistory
Call(target, a) ==
    /\ call = None
    /\ Len(history) < MaxHistory \/ Validate(status, target, a.reason) /= "ok"
    /\ call' = Some([ target |-> target, args |-> a ])
    /\ result' = NoResult
    /\ UNCHANGED <<initial_status, status, history, accepted, now>>
    /\ UNCHANGED notLcVars

\* LifecycleManager.transition(target, reason=, reason_code=, producer=,
\* amount=, timestamp=): the whole body, from the validations to the raise or
\* the return.  datetime.now(UTC) is a reading later than the previous one.
transition ==
    /\ call /= None
    /\ LET target == call[1].target
           a == call[1].args
           outcome == Validate(status, target, a.reason)
       IN IF outcome /= "ok"
          THEN /\ result' = Raised(outcome)
               /\ UNCHANGED <<status, history, accepted, now>>
          ELSE /\ now' = IF a.timestamp = None THEN now + 1 ELSE now
               /\ LET ts == EventTimestamp(a.timestamp, now')
                      event == LifecycleEvent(ts, target, a.reason, a.reason_code,
                                   EventProducer(target, a.producer), a.amount)
                  IN /\ status' = target
                     /\ history' = HistoryAppend(history, event)
                     /\ result' = Returned(event)
                     /\ accepted' = Append(accepted, target)
    /\ call' = None
    /\ UNCHANGED initial_status
    /\ UNCHANGED notLcVars

CallTransition == \E target \in InvoiceStatus, a \in TransitionArgs : Call(target, a)

\* no CDAR message is being exchanged
CdarIdle ==
    /\ cdar_message = None
    /\ cdar_xml = None
    /\ cdar_tampered = 0
    /\ cdar_parsed = None

\* no reporter operation has been called
ErIdle ==
    /\ er_seller_siren = None
    /\ er_vat_regime = None
    /\ er_call = None
    /\ er_result = None

\* MemoryPDP.__init__: nothing stored, counter at 0.  The calls made on one
\* connector fall within one reading of the clock.
PdpEmpty ==
    /\ pdp_invoices = <<>>
    /\ pdp_counter = 0
    /\ pdp_clock = 0
    /\ pdp_call = None
    /\ pdp_response = None
    /\ pdp_issued = <<>>
    /\ pdp_accepted = <<>>

\* no coroutine has been handed to the event loop, no second thread is running
NoConcurrency ==
    /\ pdp_tasks = <<>>
    /\ threads = <<>>
    /\ thr_log = <<>>

Init == InitLifecycle /\ CdarIdle /\ ErIdle /\ PdpEmpty /\ NoConcurrency

Next == CallTransition \/ transition

Spec == Init /\ [][Next]_vars

\* ------------------------------------------------------------------------
\* Text, numbers and dates as the codec formats and parses them
\* ------------------------------------------------------------------------

DigitChars == <<"0", "1", "2", "3", "4", "5", "6", "7", "8", "9">>

IsDigit(c) == c \in Elems(DigitChars)

DigitVal(c) == (CHOOSE i \in 1..10 : DigitChars[i] = c) - 1

AllDigits(t) == \A i \in 1..Len(t) : IsDigit(t[i])

\* "%d" % n for n >= 0
RECURSIVE NatToStr(_)
NatToStr(n) ==
    IF n < 10 THEN <<DigitChars[n + 1]>>
    ELSE NatToStr(n \div 10) \o <<DigitChars[(n % 10) + 1]>>

\* int(t) for a string of digits
RECURSIVE StrToNat(_)
StrToNat(t) ==
    IF t = <<>> THEN 0
    ELSE 10 * StrToNat(SubSeq(t, 1, Len(t) - 1)) + DigitVal(t[Len(t)])

Zeros(n) == [ i \in 1..n |-> "0" ]

\* str(int(t)) for a non-empty string of digits: no leading zeros
RECURSIVE StripZeros(_)
StripZeros(t) ==
    IF Len(t) > 1 /\ t[1] = "0" THEN StripZeros(Tail(t)) ELSE t

\* n zero-padded to width w, as %Y, %m and %d do
Pad(n, w) ==
    LET t == NatToStr(n) IN IF Len(t) < w THEN Zeros(w - Len(t)) \o t ELSE t

\* position of the first c in t, 0 when there is none
IndexOf(t, c) ==
    LET idx == { i \in 1..Len(t) : t[i] = c }
    IN IF idx = {} THEN 0 ELSE CHOOSE i \in idx : \A j \in idx : i <= j

\* decimal.Decimal: sign, coefficient digits and exponent
Decimal(sign, int, exp) == [ sign |-> sign, int |-> int, exp |-> exp ]

\* str(Decimal): plain notation when exp <= 0 and the value is not too
\* small, scientific notation otherwise
DecimalStr(d) ==
    LET leftdigits == d.exp + Len(d.int)
        dotplace == IF d.exp <= 0 /\ leftdigits > -6 THEN leftdigits ELSE 1
        intpart == IF dotplace <= 0 THEN <<"0">>
                   ELSE IF dotplace >= Len(d.int)
                        THEN d.int \o Zeros(dotplace - Len(d.int))
                        ELSE SubSeq(d.int, 1, dotplace)
        fracpart == IF dotplace <= 0 THEN <<".">> \o Zeros(-dotplace) \o d.int
                    ELSE IF dotplace >= Len(d.int) THEN <<>>
                         ELSE <<".">> \o SubSeq(d.int, dotplace + 1, Len(d.int))
        e == leftdigits - dotplace
        exp == IF e = 0 THEN <<>>
               ELSE <<"E">> \o (IF e < 0 THEN <<"-">> \o NatToStr(-e)
                                         ELSE <<"+">> \o NatToStr(e))
    IN (IF d.sign = 1 THEN <<"-">> ELSE <<>>) \o intpart \o fracpart \o exp

\* Decimal(text): [sign] digits [. digits] [E [sign] digits]; None stands for
\* decimal.InvalidOperation
DecimalParse(t) ==
    LET signed == t /= <<>> /\ t[1] \in {"-", "+"}
        sign == IF signed /\ t[1] = "-" THEN 1 ELSE 0
        body == IF signed THEN Tail(t) ELSE t
        epos == IndexOf(body, "E")
        mant == IF epos = 0 THEN body ELSE SubSeq(body, 1, epos - 1)
        etxt == IF epos = 0 THEN <<>> ELSE SubSeq(body, epos + 1, Len(body))
        esigned == etxt /= <<>> /\ etxt[1] \in {"-", "+"}
        edigits == IF esigned THEN Tail(etxt) ELSE etxt
        dot == IndexOf(mant, ".")
        intpart == IF dot = 0 THEN mant ELSE SubSeq(mant, 1, dot - 1)
        fracpart == IF dot = 0 THEN <<>> ELSE SubSeq(mant, dot + 1, Len(mant))
        wellFormed ==
            /\ AllDigits(intpart) /\ AllDigits(fracpart)
            /\ Len(intpart) + Len(fracpart) > 0
            /\ epos /= 0 => (edigits /= <<>> /\ AllDigits(edigits))
        e == IF epos = 0 THEN 0
             ELSE IF esigned /\ etxt[1] = "-" THEN -StrToNat(edigits)
             ELSE StrToNat(edigits)
    IN IF wellFormed
       THEN Some(Decimal(sign, StripZeros(intpart \o fracpart), e - Len(fracpart)))
       ELSE None

DateTime(year, month, day, hour) ==
    [ year |-> year, month |-> month, day |-> day, hour |-> hour ]

\* issue_datetime.strftime("%Y%m%d")
Strftime(dt) == Pad(dt.year, 4) \o Pad(dt.month, 2) \o Pad(dt.day, 2)

\* datetime.strptime(text, "%Y%m%d") on an eight-digit text: midnight of that
\* day; None stands for the ValueError or TypeError of any other text
Strptime(text) ==
    IF text /= None /\ Len(text[1]) = 8 /\ AllDigits(text[1])
       /\ StrToNat(SubSeq(text[1], 5, 6)) \in 1..12
       /\ StrToNat(SubSeq(text[1], 7, 8)) \in 1..31
    THEN Some(DateTime(StrToNat(SubSeq(text[1], 1, 4)),
                       StrToNat(SubSeq(text[1], 5, 6)),
                       StrToNat(SubSeq(text[1], 7, 8)), 0))
    ELSE None

\* ------------------------------------------------------------------------
\* lifecycle/cdar.py: the XML tree (lxml.etree elements)
\* ------------------------------------------------------------------------

\* an element: tag, attributes as (name, value) pairs, text, children
Element(tag, attrib, text, children) ==
    [ tag |-> tag, attrib |-> attrib, text |-> text, children |-> children ]

Leaf(tag, text) == Element(tag, {}, Some(text), <<>>)

Node(tag, children) == Element(tag, {}, None, children)

\* parent.find(tag): the first child with that tag, or None
Find(parent, tag) ==
    LET idx == { i \in 1..Len(parent.children) : parent.children[i].tag = tag }
    IN IF idx = {} THEN None
       ELSE Some(parent.children[CHOOSE i \in idx : \A j \in idx : i <= j])

\* Find on an optional parent, for paths such as "a/b"
FindIn(parent, tag) == IF parent = None THEN None ELSE Find(parent[1], tag)

\* parent.findall(tag): the children with that tag, in document order
IsRecipient(e) == e.tag = "ram:RecipientTradeParty"

FindAllRecipients(parent) == SelectSeq(parent.children, IsRecipient)

\* elem.get(name, default)
AttrGet(elem, name, default) ==
    IF \E p \in elem.attrib : p[1] = name
    THEN (CHOOSE p \in elem.attrib : p[1] = name)[2]
    ELSE default

\* etree.tostring followed by etree.fromstring: the tree comes back with the
\* same elements, attributes and non-empty texts; an element whose text was
\* set to "" comes back with text None
RECURSIVE Wire(_)
Wire(e) ==
    Element(e.tag, e.attrib,
            IF e.text = Some(EmptyStr) THEN None ELSE e.text,
            [ i \in 1..Len(e.children) |-> Wire(e.children[i]) ])

\* ------------------------------------------------------------------------
\* lifecycle/cdar.py: CDARParty, CDARMessage, CDARGenerator
\* ------------------------------------------------------------------------

CDAR_GUIDELINE_ID == <<"urn:factur-x.eu:1p0:cdar">>

CDAR_TYPE_CODE == <<"Y", "C", "2">>

\* the wire code of each role (the StrEnum value)
RoleValue ==
    [ BY |-> <<"B", "Y">>, SE |-> <<"S", "E">>, DL |-> <<"D", "L">>,
      WK |-> <<"W", "K">>, DFH |-> <<"D", "F", "H">> ]

CDARParty(identifier, scheme_id, role_code) ==
    [ identifier |-> identifier, scheme_id |-> scheme_id, role_code |-> role_code ]

CDARMessage(message_id, issue_datetime, status_code, invoice_reference, sender, recipients, reason, reason_code, amount) ==
    [ message_id |-> message_id, issue_datetime |-> issue_datetime,
      status_code |-> status_code, invoice_reference |-> invoice_reference,
      sender |-> sender, recipients |-> recipients, reason |-> reason,
      reason_code |-> reason_code, amount |-> amount ]

\* CDARGenerator._build_context
BuildContext ==
    Node("rsm:ExchangedDocumentContext",
         << Node("ram:GuidelineSpecifiedDocumentContextParameter",
                 << Leaf("ram:ID", CDAR_GUIDELINE_ID) >>) >>)

\* CDARGenerator._build_party
BuildParty(tag, party) ==
    Node(tag,
         << Element("ram:ID", { <<"schemeID", party.scheme_id>> },
                    Some(party.identifier), <<>>),
            Leaf("ram:RoleCode", RoleValue[party.role_code]) >>)

\* CDARGenerator._build_exchanged_document
BuildExchangedDocument(message) ==
    Node("rsm:ExchangedDocument",
         << Leaf("ram:ID", message.message_id),
            Leaf("ram:TypeCode", CDAR_TYPE_CODE),
            Leaf("ram:StatusCode", StatusValue[message.status_code]),
            Node("ram:IssueDateTime",
                 << Element("udt:DateTimeString", { <<"format", <<"1", "0", "2">> >> },
                            Some(Strftime(message.issue_datetime)), <<>>) >>),
            BuildParty("ram:SenderTradeParty", message.sender) >>
         \o [ i \in 1..Len(message.recipients) |->
                BuildParty("ram:RecipientTradeParty", message.recipients[i]) ])

\* CDARGenerator._build_acknowledgement_document
BuildAcknowledgementDocument(message) ==
    Node("rsm:AcknowledgementDocument",
         << Leaf("ram:StatusCode", StatusValue[message.status_code]) >>
         \o (IF Truthy(message.reason)
             THEN << Leaf("ram:ReasonInformation", message.reason[1]) >> ELSE <<>>)
         \o (IF Truthy(message.reason_code)
             THEN << Leaf("ram:ReasonCode", message.reason_code[1]) >> ELSE <<>>)
         \o (IF message.amount /= None
             THEN << Leaf("ram:SpecifiedAmount", DecimalStr(message.amount[1])) >>
             ELSE <<>>)
         \o << Node("ram:ReferenceReferencedDocument",
                    << Leaf("ram:IssuerAssignedID", message.invoice_reference) >>) >>)

\* CDARGenerator.generate_xml, up to the serialisation
generate_xml(message) ==
    Node("rsm:CrossDomainAcknowledgementAndResponse",
         << BuildContext, BuildExchangedDocument(message),
            BuildAcknowledgementDocument(message) >>)

\* ------------------------------------------------------------------------
\* lifecycle/cdar.py: CDARParser
\* ------------------------------------------------------------------------

ParseError(what) == [ kind |-> "error", error |-> what, message |-> None ]

Parsed(message) == [ kind |-> "ok", error |-> "", message |-> Some(message) ]

\* CDARParser._get_text: None stands for the ValueError of a missing element
\* or of an element without text
GetText_EmptyForMissing(parent, tag) ==
    LET elem == Find(parent, tag)
    IN IF elem = None \/ elem[1].text = None THEN Some(EmptyStr) ELSE elem[1].text

GetText(parent, tag) ==
    LET elem == Find(parent, tag)
    IN IF elem = None \/ ~Truthy(elem[1].text) THEN None ELSE elem[1].text

\* CDARParser._get_text_optional
GetTextOptional(parent, tag) ==
    LET elem == Find(parent, tag)
    IN IF elem = None THEN None ELSE elem[1].text

\* InvoiceStatus(text): the status with that code, None for the ValueError
StatusFromValue(text) ==
    IF \E s \in InvoiceStatus : StatusValue[s] = text
    THEN Some(CHOOSE s \in InvoiceStatus : StatusValue[s] = text)
    ELSE None

\* CDARRoleCode(text): the role with that code, None for the ValueError
RoleFromValue(text) ==
    IF \E r \in CDARRoleCode : RoleValue[r] = text
    THEN Some(CHOOSE r \in CDARRoleCode : RoleValue[r] = text)
    ELSE None

\* CDARParser._parse_party: None stands for the ValueError it raises
ParseParty(elem) ==
    LET id_elem == Find(elem, "ram:ID")
        role_text == GetText(elem, "ram:RoleCode")
        role == IF role_text = None THEN None ELSE RoleFromValue(role_text[1])
    IN IF id_elem = None \/ role = None THEN None
       ELSE Some(CDARParty(
                IF Truthy(id_elem[1].text) THEN id_elem[1].text[1] ELSE EmptyStr,
                AttrGet(id_elem[1], "schemeID", EmptyStr),
                role[1]))

\* CDARParser.parse: the checks in the order of the code, each raising
ParseXml(root) ==
    LET doc == Find(root, "rsm:ExchangedDocument") IN
    IF doc = None THEN ParseError("ExchangedDocument") ELSE
    LET message_id == GetText(doc[1], "ram:ID") IN
    IF message_id = None THEN ParseError("ram:ID") ELSE
    LET status_code_text == GetText(doc[1], "ram:StatusCode") IN
    IF status_code_text = None THEN ParseError("ram:StatusCode") ELSE
    LET status_code == StatusFromValue(status_code_text[1]) IN
    IF status_code = None THEN ParseError("InvoiceStatus") ELSE
    LET dt_string == FindIn(Find(doc[1], "ram:IssueDateTime"), "udt:DateTimeString") IN
    IF dt_string = None THEN ParseError("IssueDateTime") ELSE
    LET issue_datetime == Strptime(dt_string[1].text) IN
    IF issue_datetime = None THEN ParseError("strptime") ELSE
    LET sender_elem == Find(doc[1], "ram:SenderTradeParty") IN
    IF sender_elem = None THEN ParseError("SenderTradeParty") ELSE
    LET sender == ParseParty(sender_elem[1]) IN
    IF sender = None THEN ParseError("TradeParty") ELSE
    LET recipient_elems == FindAllRecipients(doc[1])
        recipients == [ i \in 1..Len(recipient_elems) |-> ParseParty(recipient_elems[i]) ]
    IN
    IF \E i \in 1..Len(recipients) : recipients[i] = None
    THEN ParseError("TradeParty") ELSE
    LET ack == Find(root, "rsm:AcknowledgementDocument") IN
    IF ack = None THEN ParseError("AcknowledgementDocument") ELSE
    LET reason == GetTextOptional(ack[1], "ram:ReasonInformation")
        reason_code == GetTextOptional(ack[1], "ram:ReasonCode")
        amount_text == GetTextOptional(ack[1], "ram:SpecifiedAmount")
        amount == IF Truthy(amount_text) THEN DecimalParse(amount_text[1]) ELSE None
    IN
    IF Truthy(amount_text) /\ amount = None THEN ParseError("Decimal") ELSE
    LET ref_doc == Find(ack[1], "ram:ReferenceReferencedDocument") IN
    IF ref_doc = None THEN ParseError("ReferenceReferencedDocument") ELSE
    LET invoice_reference == GetText(ref_doc[1], "ram:IssuerAssignedID") IN
    IF invoice_reference = None THEN ParseError("ram:IssuerAssignedID") ELSE
    Parsed(CDARMessage(message_id[1], issue_datetime[1], status_code[1],
                       invoice_reference[1], sender[1],
                       [ i \in 1..Len(recipients) |-> recipients[i][1] ],
                       reason, reason_code, amount))

\* ------------------------------------------------------------------------
\* The CDAR exchange: a message is generated, travels, and is parsed
\* ------------------------------------------------------------------------

\* the element at the end of a path of tags below e is present
RECURSIVE HasPath(_, _)
HasPath(e, path) ==
    IF path = <<>> THEN TRUE
    ELSE LET child == Find(e, path[1])
         IN child /= None /\ HasPath(child[1], Tail(path))

\* e without the first element found along a path of tags
RECURSIVE RemovePath(_, _)
RemovePath(e, path) ==
    LET idx == { i \in 1..Len(e.children) : e.children[i].tag = path[1] } IN
    IF idx = {} THEN e
    ELSE LET k == CHOOSE i \in idx : \A j \in idx : i <= j
         IN IF Len(path) = 1
            THEN [ e EXCEPT !.children =
                     SubSeq(e.children, 1, k - 1)
                     \o SubSeq(e.children, k + 1, Len(e.children)) ]
            ELSE [ e EXCEPT !.children[k] = RemovePath(e.children[k], Tail(path)) ]

\* e with the text of the first element found along a path of tags replaced
RECURSIVE SetTextAt(_, _, _)
SetTextAt(e, path, text) ==
    IF path = <<>> THEN [ e EXCEPT !.text = Some(text) ]
    ELSE LET idx == { i \in 1..Len(e.children) : e.children[i].tag = path[1] } IN
         IF idx = {} THEN e
         ELSE LET k == CHOOSE i \in idx : \A j \in idx : i <= j
              IN [ e EXCEPT !.children[k] = SetTextAt(e.children[k], Tail(path), text) ]

DocPath == <<"rsm:ExchangedDocument">>

AckPath == <<"rsm:AcknowledgementDocument">>

\* the elements a sender of malformed documents leaves out
RemovablePaths ==
    { DocPath,
      DocPath \o <<"ram:ID">>,
      DocPath \o <<"ram:TypeCode">>,
      DocPath \o <<"ram:StatusCode">>,
      DocPath \o <<"ram:IssueDateTime">>,
      DocPath \o <<"ram:IssueDateTime", "udt:DateTimeString">>,
      DocPath \o <<"ram:SenderTradeParty">>,
      DocPath \o <<"ram:SenderTradeParty", "ram:ID">>,
      DocPath \o <<"ram:RecipientTradeParty">>,
      AckPath,
      AckPath \o <<"ram:StatusCode">>,
      AckPath \o <<"ram:ReasonInformation">>,
      AckPath \o <<"ram:ReferenceReferencedDocument">>,
      AckPath \o <<"ram:ReferenceReferencedDocument", "ram:IssuerAssignedID">> }

\* most recipients of a message
MaxRecipients == 2

\* most alterations of a document in transit
MaxTamper == 1

\* the messages the callers of the model build
MessageIds == { EmptyStr, <<"M", "1">> }

InvoiceRefs == { EmptyStr, <<"F", "A">> }

Senders ==
    { CDARParty(<<"1", "2", "3">>, <<"0", "0", "0", "2">>, "SE"),
      CDARParty(EmptyStr, EmptyStr, "WK") }

RecipientParties ==
    { CDARParty(<<"4", "5", "6">>, <<"0", "0", "0", "9">>, "BY"),
      CDARParty(<<"P", "P", "F">>, <<"0", "2", "2", "4">>, "DFH") }

RecipientLists ==
    UNION { [ 1..n -> RecipientParties ] : n \in 0..MaxRecipients }

OptionalTexts == { None, Some(EmptyStr), Some(Motif) }

Amounts ==
    { None,
      Some(Decimal(0, <<"9", "5", "0", "0", "0", "0">>, -2)),
      Some(Decimal(0, <<"1">>, 2)),
      Some(Decimal(1, <<"1", "2">>, -7)) }

IssueDate == DateTime(2026, 9, 15, 10)

BaseSender == CDARParty(<<"1", "2", "3">>, <<"0", "0", "0", "2">>, "SE")

TwoRecipients ==
    << CDARParty(<<"P", "P", "F">>, <<"0", "2", "2", "4">>, "DFH"),
       CDARParty(<<"4", "5", "6">>, <<"0", "0", "0", "9">>, "BY") >>

\* every status; every identifier, sender and recipient list; every reason,
\* reason code and amount
Messages ==
    { CDARMessage(<<"M", "1">>, IssueDate, s, <<"F", "A">>, BaseSender,
                  <<>>, None, None, None) : s \in InvoiceStatus }
    \cup
    { CDARMessage(id, IssueDate, "ENCAISSEE", ref, sender, recipients,
                  None, None, None) :
        id \in MessageIds, ref \in InvoiceRefs, sender \in Senders,
        recipients \in RecipientLists }
    \cup
    { CDARMessage(<<"M", "1">>, IssueDate, "REFUSEE", <<"F", "A">>, BaseSender,
                  recipients, reason, code, amount) :
        recipients \in { <<>>, TwoRecipients },
        reason \in OptionalTexts, code \in OptionalTexts, amount \in Amounts }

\* CDARGenerator.generate_xml(message), and the bytes parsed back into a tree
GenerateXml(message) ==
    /\ cdar_message = None
    /\ cdar_message' = Some(message)
    /\ cdar_xml' = Some(Wire(generate_xml(message)))
    /\ UNCHANGED <<cdar_tampered, cdar_parsed>>
    /\ UNCHANGED notCdarVars

\* a document arrives without one of its elements
RemoveElement(path) ==
    /\ cdar_xml /= None
    /\ cdar_parsed = None
    /\ cdar_tampered < MaxTamper
    /\ HasPath(cdar_xml[1], path)
    /\ cdar_xml' = Some(RemovePath(cdar_xml[1], path))
    /\ cdar_tampered' = cdar_tampered + 1
    /\ UNCHANGED <<cdar_message, cdar_parsed>>
    /\ UNCHANGED notCdarVars

\* a document arrives with a status code no status has
UnknownStatusCode ==
    /\ cdar_xml /= None
    /\ cdar_parsed = None
    /\ cdar_tampered < MaxTamper
    /\ HasPath(cdar_xml[1], DocPath \o <<"ram:StatusCode">>)
    /\ cdar_xml' = Some(SetTextAt(cdar_xml[1], DocPath \o <<"ram:StatusCode">>,
                                  <<"9", "9", "9">>))
    /\ cdar_tampered' = cdar_tampered + 1
    /\ UNCHANGED <<cdar_message, cdar_parsed>>
    /\ UNCHANGED notCdarVars

\* CDARParser.parse(xml_bytes)
Parse ==
    /\ cdar_xml /= None
    /\ cdar_parsed = None
    /\ cdar_parsed' = Some(ParseXml(cdar_xml[1]))
    /\ UNCHANGED <<cdar_message, cdar_xml, cdar_tampered>>
    /\ UNCHANGED notCdarVars

Generate == \E message \in Messages : GenerateXml(message)

Tamper == \E path \in RemovablePaths : RemoveElement(path)

InitCDAR ==
    /\ InitLifecycle
    /\ initial_status = "DEPOSEE"
    /\ CdarIdle
    /\ ErIdle
    /\ PdpEmpty
    /\ NoConcurrency

NextCDAR == Generate \/ Tamper \/ UnknownStatusCode \/ Parse

SpecCDAR == InitCDAR /\ [][NextCDAR]_vars

\* ------------------------------------------------------------------------
\* ereporting/models.py, ereporting/errors.py
\* ------------------------------------------------------------------------

VATRegime == { "REAL_NORMAL_MONTHLY", "REAL_NORMAL_QUARTERLY", "SIMPLIFIED_REAL", "FRANCHISE" }

EReportingTransactionType == { "B2C_DOMESTIC", "B2B_INTRA_EU", "B2B_EXTRA_EU" }

EReportingTransmissionMode == { "INDIVIDUAL", "AGGREGATED" }

\* datetime.date
Date(year, month, day) == [ year |-> year, month |-> month, day |-> day ]

\* a < b on dates
DateLess(a, b) ==
    \/ a.year < b.year
    \/ a.year = b.year /\ a.month < b.month
    \/ a.year = b.year /\ a.month = b.month /\ a.day < b.day

\* calendar.isleap(year)
isleap(year) == year % 4 = 0 /\ (year % 100 /= 0 \/ year % 400 = 0)

\* calendar.monthrange(year, month)[1]: number of days of the month
monthrange(year, month) ==
    IF month = 2 THEN (IF isleap(year) THEN 29 ELSE 28)
    ELSE IF month \in {4, 6, 9, 11} THEN 30 ELSE 31

\* amounts are Decimal values counted in cents, rates in percent; Decimal
\* addition and comparison of such values are exact
TaxBreakdown(vat_rate, vat_exemption, taxable_amount, vat_amount) ==
    [ vat_rate |-> vat_rate, vat_exemption |-> vat_exemption,
      taxable_amount |-> taxable_amount, vat_amount |-> vat_amount ]

TransactionData(seller_siren, transaction_type, period_start, invoice_date, operation_category, total_excl_tax, vat_amount, vat_rate, vat_exemption, vat_on_debits, country_code) ==
    [ seller_siren |-> seller_siren, transaction_type |-> transaction_type,
      period_start |-> period_start, invoice_date |-> invoice_date,
      operation_category |-> operation_category,
      total_excl_tax |-> total_excl_tax, vat_amount |-> vat_amount,
      vat_rate |-> vat_rate, vat_exemption |-> vat_exemption,
      vat_on_debits |-> vat_on_debits, country_code |-> country_code ]

PaymentData(seller_siren, cashing_date, cashed_amount, invoice_reference) ==
    [ seller_siren |-> seller_siren, cashing_date |-> cashing_date,
      cashed_amount |-> cashed_amount, invoice_reference |-> invoice_reference ]

AggregatedTransactionData(seller_siren, period_start, period_end, operation_category, tax_breakdowns, vat_on_debits) ==
    [ seller_siren |-> seller_siren, period_start |-> period_start,
      period_end |-> period_end, operation_category |-> operation_category,
      tax_breakdowns |-> tax_breakdowns, vat_on_debits |-> vat_on_debits ]

\* sum(values, Decimal("0"))
RECURSIVE SumSeq(_)
SumSeq(values) ==
    IF values = <<>> THEN 0 ELSE values[1] + SumSeq(Tail(values))

\* AggregatedTransactionData.total_excl_tax
total_excl_tax(aggregated) ==
    SumSeq([ i \in 1..Len(aggregated.tax_breakdowns) |->
                 aggregated.tax_breakdowns[i].taxable_amount ])

\* AggregatedTransactionData.total_vat
total_vat(aggregated) ==
    SumSeq([ i \in 1..Len(aggregated.tax_breakdowns) |->
                 aggregated.tax_breakdowns[i].vat_amount ])

\* EReportingSubmission(transmission_mode=..., <one data field>=...)
EReportingSubmission(transmission_mode, transaction_data, aggregated_data, payment_data) ==
    [ transmission_mode |-> transmission_mode, transaction_data |-> transaction_data,
      aggregated_data |-> aggregated_data, payment_data |-> payment_data ]

\* a reporter operation returns value
ErReturn(value) == [ kind |-> "returned", value |-> value, errors |-> <<>> ]

\* EReportingValidationError(message, errors=None): self.errors = errors or []
EReportingValidationError(errors) ==
    [ kind |-> "validation_error", value |-> None,
      errors |-> IF errors = None THEN <<>> ELSE errors[1] ]

\* EReportingEmptyDeclarationError(message)
EReportingEmptyDeclarationError ==
    [ kind |-> "empty_declaration", value |-> None, errors |-> <<>> ]

\* ------------------------------------------------------------------------
\* ereporting/reporter.py: validation
\* ------------------------------------------------------------------------

FR == <<"F", "R">>

\* errors.append(x) when cond holds
AppendIf(errors, cond, x) == IF cond THEN Append(errors, x) ELSE errors

\* the country-code block of validate_transaction: at most one error
CountryErrors(transaction) ==
    IF transaction.transaction_type \in { "B2B_INTRA_EU", "B2B_EXTRA_EU" }
    THEN IF ~ Truthy(transaction.country_code)
         THEN <<"country code required">>
         ELSE IF transaction.country_code[1] = FR
              THEN <<"country code cannot be FR">>
              ELSE <<>>
    ELSE <<>>

validate_transaction_StopAtFirst(transaction) ==
    IF transaction.seller_siren /= er_seller_siren
    THEN <<"siren mismatch">>
    ELSE IF CountryErrors(transaction) /= <<>>
         THEN CountryErrors(transaction)
         ELSE IF transaction.vat_rate = None /\ ~ transaction.vat_exemption
              THEN <<"vat rate or exemption required">>
              ELSE IF transaction.invoice_date = None /\ transaction.period_start = None
                   THEN <<"invoice date or period start required">>
                   ELSE <<>>

\* EReporter.validate_transaction(transaction): the list of errors
validate_transaction(transaction) ==
    LET e1 == AppendIf(<<>>, transaction.seller_siren /= er_seller_siren,
                       "siren mismatch")
        e2 == e1 \o CountryErrors(transaction)
        e3 == AppendIf(e2, transaction.vat_rate = None /\ ~ transaction.vat_exemption,
                       "vat rate or exemption required")
    IN AppendIf(e3, transaction.invoice_date = None /\ transaction.period_start = None,
                "invoice date or period start required")

\* EReporter.validate_payment(payment): the list of errors
validate_payment(payment) ==
    AppendIf(<<>>, payment.seller_siren /= er_seller_siren, "siren mismatch")

\* EReporter.validate_aggregated(aggregated): raises or returns the list
validate_aggregated(aggregated) ==
    LET errors == AppendIf(<<>>, aggregated.seller_siren /= er_seller_siren,
                           "siren mismatch")
    IN IF total_excl_tax(aggregated) = 0 /\ total_vat(aggregated) = 0
       THEN EReportingEmptyDeclarationError
       ELSE ErReturn(errors)

\* ------------------------------------------------------------------------
\* ereporting/reporter.py: preparation
\* ------------------------------------------------------------------------

prepare_transaction_NoErrorList(transaction) ==
    LET errors == validate_transaction(transaction)
    IN IF errors /= <<>>
       THEN EReportingValidationError(None)
       ELSE ErReturn(EReportingSubmission("INDIVIDUAL", Some(transaction), None, None))

\* EReporter.prepare_transaction(transaction)
prepare_transaction(transaction) ==
    LET errors == validate_transaction(transaction)
    IN IF errors /= <<>>
       THEN EReportingValidationError(Some(errors))
       ELSE ErReturn(EReportingSubmission("INDIVIDUAL", Some(transaction), None, None))

\* EReporter.prepare_aggregated(aggregated): an exception of
\* validate_aggregated propagates
prepare_aggregated(aggregated) ==
    LET validated == validate_aggregated(aggregated)
    IN IF validated.kind /= "returned"
       THEN validated
       ELSE IF validated.value /= <<>>
            THEN EReportingValidationError(Some(validated.value))
            ELSE ErReturn(EReportingSubmission("AGGREGATED", None, Some(aggregated), None))

\* EReporter.prepare_payment(payment)
prepare_payment(payment) ==
    LET errors == validate_payment(payment)
    IN IF errors /= <<>>
       THEN EReportingValidationError(Some(errors))
       ELSE ErReturn(EReportingSubmission("INDIVIDUAL", None, None, Some(payment)))

\* ------------------------------------------------------------------------
\* ereporting/reporter.py: aggregation
\* ------------------------------------------------------------------------

\* key = (txn.vat_rate, txn.vat_exemption)
BreakdownKey(txn) == <<txn.vat_rate, txn.vat_exemption>>

\* position of key in the dict's items, 0 when absent: breakdowns.get(key)
KeyIndex(items, key) ==
    IF \E i \in 1..Len(items) : items[i].key = key
    THEN CHOOSE i \in 1..Len(items) : items[i].key = key
    ELSE 0

Accumulate_Overwrite(items, txn) ==
    LET key == BreakdownKey(txn)
        i == KeyIndex(items, key)
        entry == [ key |-> key, taxable |-> txn.total_excl_tax, vat |-> txn.vat_amount ]
    IN IF i /= 0 THEN [ items EXCEPT ![i] = entry ] ELSE Append(items, entry)

\* one iteration of the grouping loop; a dict keeps its keys in insertion order
Accumulate(items, txn) ==
    LET key == BreakdownKey(txn)
        i == KeyIndex(items, key)
    IN IF i /= 0
       THEN [ items EXCEPT ![i] = [ key |-> key,
                                    taxable |-> @.taxable + txn.total_excl_tax,
                                    vat |-> @.vat + txn.vat_amount ] ]
       ELSE Append(items, [ key |-> key, taxable |-> txn.total_excl_tax,
                            vat |-> txn.vat_amount ])

\* the grouping loop: for txn in transactions
RECURSIVE GroupByKey(_)
GroupByKey(transactions) ==
    IF transactions = <<>> THEN <<>>
    ELSE Accumulate(GroupByKey(SubSeq(transactions, 1, Len(transactions) - 1)),
                    transactions[Len(transactions)])

\* the sort key's first component: x[0][0] or Decimal("-1")
RateKey(vat_rate) ==
    IF vat_rate = None \/ vat_rate[1] = 0 THEN -1 ELSE vat_rate[1]

\* False < True
BoolInt(b) == IF b THEN 1 ELSE 0

\* key=lambda x: (x[0][0] or Decimal("-1"), x[0][1])
SortKey(item) == <<RateKey(item.key[1]), BoolInt(item.key[2])>>

\* tuple comparison a <= b of two sort keys
SortKeyLE(a, b) == a[1] < b[1] \/ (a[1] = b[1] /\ a[2] <= b[2])

\* insertion of item behind the items of sorted whose key is not greater
InsertStable(sorted, item) ==
    LET n == Cardinality({ i \in 1..Len(sorted) :
                               SortKeyLE(SortKey(sorted[i]), SortKey(item)) })
    IN SubSeq(sorted, 1, n) \o <<item>> \o SubSeq(sorted, n + 1, Len(sorted))

\* sorted(breakdowns.items(), key=...): a stable sort
RECURSIVE Sorted(_)
Sorted(items) ==
    IF items = <<>> THEN <<>>
    ELSE InsertStable(Sorted(SubSeq(items, 1, Len(items) - 1)), items[Len(items)])

\* the set of seller SIRENs: {t.seller_siren for t in transactions}
Sirens(transactions) == { transactions[i].seller_siren : i \in 1..Len(transactions) }

aggregate_transactions_OwnSirenOnly(transactions, period_start, period_end) ==
    IF transactions = <<>>
    THEN EReportingEmptyDeclarationError
    ELSE IF Sirens(transactions) /= { er_seller_siren }
         THEN EReportingValidationError(None)
         ELSE LET items == Sorted(GroupByKey(transactions))
                  tax_breakdowns ==
                      [ i \in 1..Len(items) |->
                            TaxBreakdown(items[i].key[1], items[i].key[2],
                                         items[i].taxable, items[i].vat) ]
              IN ErReturn(AggregatedTransactionData(
                     transactions[1].seller_siren, period_start, period_end,
                     transactions[1].operation_category, tax_breakdowns,
                     transactions[1].vat_on_debits))

\* EReporter.aggregate_transactions(transactions, period_start, period_end)
aggregate_transactions(transactions, period_start, period_end) ==
    IF transactions = <<>>
    THEN EReportingEmptyDeclarationError
    ELSE IF Cardinality(Sirens(transactions)) > 1
         THEN EReportingValidationError(None)
         ELSE LET items == Sorted(GroupByKey(transactions))
                  tax_breakdowns ==
                      [ i \in 1..Len(items) |->
                            TaxBreakdown(items[i].key[1], items[i].key[2],
                                         items[i].taxable, items[i].vat) ]
              IN ErReturn(AggregatedTransactionData(
                     transactions[1].seller_siren, period_start, period_end,
                     transactions[1].operation_category, tax_breakdowns,
                     transactions[1].vat_on_debits))

\* ------------------------------------------------------------------------
\* ereporting/reporter.py: transmission deadlines
\* ------------------------------------------------------------------------

next_decadal_deadline_OnOrAfter(reference_date) ==
    LET year == reference_date.year
        month == reference_date.month
        last_day == monthrange(year, month)
    IN IF ~ DateLess(Date(year, month, 10), reference_date)
       THEN Date(year, month, 10)
       ELSE IF ~ DateLess(Date(year, month, 20), reference_date)
            THEN Date(year, month, 20)
            ELSE IF ~ DateLess(Date(year, month, last_day), reference_date)
                 THEN Date(year, month, last_day)
                 ELSE IF month = 12 THEN Date(year + 1, 1, 10)
                      ELSE Date(year, month + 1, 10)

\* EReporter.next_decadal_deadline(reference_date)
next_decadal_deadline(reference_date) ==
    LET year == reference_date.year
        month == reference_date.month
        last_day == monthrange(year, month)
    IN IF DateLess(reference_date, Date(year, month, 10))
       THEN Date(year, month, 10)
       ELSE IF DateLess(reference_date, Date(year, month, 20))
            THEN Date(year, month, 20)
            ELSE IF DateLess(reference_date, Date(year, month, last_day))
                 THEN Date(year, month, last_day)
                 ELSE IF month = 12 THEN Date(year + 1, 1, 10)
                      ELSE Date(year, month + 1, 10)

last_day_of_next_month_SameYear(reference_date) ==
    LET next_month == IF reference_date.month = 12 THEN 1 ELSE reference_date.month + 1
    IN Date(reference_date.year, next_month, monthrange(reference_date.year, next_month))

\* EReporter.last_day_of_next_month(reference_date)
last_day_of_next_month(reference_date) ==
    LET next_year == IF reference_date.month = 12 THEN reference_date.year + 1
                     ELSE reference_date.year
        next_month == IF reference_date.month = 12 THEN 1 ELSE reference_date.month + 1
    IN Date(next_year, next_month, monthrange(next_year, next_month))

\* EReporter.next_transaction_deadline(reference_date)
next_transaction_deadline(reference_date) ==
    IF er_vat_regime \in { "REAL_NORMAL_MONTHLY", "REAL_NORMAL_QUARTERLY" }
    THEN next_decadal_deadline(reference_date)
    ELSE last_day_of_next_month(reference_date)

\* EReporter.next_payment_deadline(reference_date): None for FRANCHISE
next_payment_deadline(reference_date) ==
    IF er_vat_regime = "FRANCHISE"
    THEN None
    ELSE Some(last_day_of_next_month(reference_date))

\* ------------------------------------------------------------------------
\* The reporter and its callers
\* ------------------------------------------------------------------------

\* longest list handed to aggregate_transactions
MaxTransactions == 3

\* longest list of tax breakdowns of a hand-built aggregate
MaxBreakdowns == 3

\* last of the calendar years, from 2023 on, the reference dates are drawn
\* from, besides 2000 and 2100
LastYear == 2024

Siren1 == <<"1", "2", "3", "4", "5", "6", "7", "8", "9">>

Siren2 == <<"9", "8", "7", "6", "5", "4", "3", "2", "1">>

SellerSirens == { Siren1, Siren2 }

Years == (2023..LastYear) \cup { 2000, 2100 }

\* every calendar date of the years of the model
Dates ==
    { dt \in [ year : Years, month : 1..12, day : 1..31 ] :
          dt.day <= monthrange(dt.year, dt.month) }

PeriodStart == Date(2026, 9, 1)

PeriodEnd == Date(2026, 9, 30)

OptionalDates == { None, Some(PeriodStart) }

CountryCodes == { None, Some(FR), Some(<<"D", "E">>) }

VatRates == { None, Some(0), Some(20) }

\* transactions that differ in what validate_transaction looks at
ValidatedTransactions ==
    { TransactionData(siren, type, period_start, invoice_date, "DELIVERY", 10000, 2000,
                      vat_rate, vat_exemption, FALSE, country_code) :
          siren \in SellerSirens, type \in EReportingTransactionType,
          period_start \in OptionalDates, invoice_date \in OptionalDates,
          vat_rate \in VatRates, vat_exemption \in BOOLEAN,
          country_code \in CountryCodes }

\* a sale of the period, as aggregate_transactions reads it
Sale(siren, vat_rate, vat_exemption, total, vat, category, vat_on_debits) ==
    TransactionData(siren, "B2C_DOMESTIC", None, Some(PeriodStart), category, total, vat,
                    vat_rate, vat_exemption, vat_on_debits, None)

\* transactions that differ in what aggregate_transactions looks at
AggregatedTransactions ==
    { Sale(Siren1, Some(20), FALSE, 10000, 2000, "DELIVERY", FALSE),
      Sale(Siren1, Some(20), FALSE, -10000, -2000, "DELIVERY", FALSE),
      Sale(Siren1, Some(20), FALSE, 20000, 4000, "SERVICE", TRUE),
      Sale(Siren1, Some(0), FALSE, 5000, 0, "DELIVERY", FALSE),
      Sale(Siren1, Some(0), TRUE, 7000, 0, "DELIVERY", FALSE),
      Sale(Siren1, None, TRUE, 3000, 0, "DELIVERY", FALSE),
      Sale(Siren1, None, FALSE, 1000, 0, "DELIVERY", FALSE),
      Sale(Siren2, Some(20), FALSE, 10000, 2000, "DELIVERY", FALSE),
      Sale(Siren2, None, TRUE, 3000, 0, "DELIVERY", FALSE) }

\* all sequences over S of length lo..hi
SeqsOf(S, lo, hi) == UNION { [ 1..n -> S ] : n \in lo..hi }

TransactionLists == SeqsOf(AggregatedTransactions, 0, MaxTransactions)

\* a sale at 20 %, a credit note at 10 %, a sale at 0 %, and two empty lines
TaxBreakdowns ==
    { TaxBreakdown(Some(20), FALSE, 10000, 2000),
      TaxBreakdown(Some(10), FALSE, -20000, -2000),
      TaxBreakdown(Some(0), FALSE, 10000, 0),
      TaxBreakdown(Some(20), FALSE, 0, 0),
      TaxBreakdown(None, TRUE, 0, 0) }

\* aggregates built by hand (tax_breakdowns has min_length 1)
Aggregates ==
    { AggregatedTransactionData(siren, PeriodStart, PeriodEnd, "DELIVERY", breakdowns, FALSE) :
          siren \in SellerSirens,
          breakdowns \in SeqsOf(TaxBreakdowns, 1, MaxBreakdowns) }

Payments ==
    { PaymentData(siren, PeriodStart, amount, <<"F", "A">>) :
          siren \in SellerSirens, amount \in { 1, 12000 } }

\* the caller hands arg to the reporter operation op
Called(op, arg) ==
    /\ er_call' = Some([ op |-> op, arg |-> arg ])
    /\ er_result' = None
    /\ UNCHANGED <<er_seller_siren, er_vat_regime>>
    /\ UNCHANGED notErVars

\* the callers of the reporter: one call at a time
CallReporter ==
    /\ er_call = None
    /\ \/ \E t \in ValidatedTransactions : Called("validate_transaction", t)
       \/ \E t \in ValidatedTransactions : Called("prepare_transaction", t)
       \/ \E p \in Payments : Called("validate_payment", p)
       \/ \E p \in Payments : Called("prepare_payment", p)
       \/ \E a \in Aggregates : Called("validate_aggregated", a)
       \/ \E a \in Aggregates : Called("prepare_aggregated", a)
       \/ \E txns \in TransactionLists : Called("aggregate_transactions", txns)
       \/ \E d \in Dates : Called("next_transaction_deadline", d)
       \/ \E d \in Dates : Called("next_payment_deadline", d)

\* the operation op is running on its argument
Running(op) == er_call /= None /\ er_result = None /\ er_call[1].op = op

\* the running operation raises or returns outcome
Outcome(outcome) ==
    /\ er_result' = Some(outcome)
    /\ UNCHANGED <<er_seller_siren, er_vat_regime, er_call>>
    /\ UNCHANGED notErVars

ValidateTransaction ==
    /\ Running("validate_transaction")
    /\ Outcome(ErReturn(validate_transaction(er_call[1].arg)))

ValidatePayment ==
    /\ Running("validate_payment")
    /\ Outcome(ErReturn(validate_payment(er_call[1].arg)))

ValidateAggregated ==
    /\ Running("validate_aggregated")
    /\ Outcome(validate_aggregated(er_call[1].arg))

PrepareTransaction ==
    /\ Running("prepare_transaction")
    /\ Outcome(prepare_transaction(er_call[1].arg))

PrepareAggregated ==
    /\ Running("prepare_aggregated")
    /\ Outcome(prepare_aggregated(er_call[1].arg))

PreparePayment ==
    /\ Running("prepare_payment")
    /\ Outcome(prepare_payment(er_call[1].arg))

AggregateTransactions ==
    /\ Running("aggregate_transactions")
    /\ Outcome(aggregate_transactions(er_call[1].arg, PeriodStart, PeriodEnd))

NextTransactionDeadline ==
    /\ Running("next_transaction_deadline")
    /\ Outcome(ErReturn(next_transaction_deadline(er_call[1].arg)))

NextPaymentDeadline ==
    /\ Running("next_payment_deadline")
    /\ Outcome(ErReturn(next_payment_deadline(er_call[1].arg)))

\* the caller has read the outcome; the reporter keeps nothing of the call
ReporterDone ==
    /\ er_call /= None
    /\ er_result /= None
    /\ er_call' = None
    /\ er_result' = None
    /\ UNCHANGED <<er_seller_siren, er_vat_regime>>
    /\ UNCHANGED notErVars

\* EReporter.__init__(seller_siren, vat_regime) with a well-formed SIREN
InitEReporter ==
    /\ er_seller_siren = Siren1
    /\ er_vat_regime \in VATRegime
    /\ er_call = None
    /\ er_result = None

InitEReporting ==
    /\ InitLifecycle
    /\ initial_status = "DEPOSEE"
    /\ CdarIdle
    /\ InitEReporter
    /\ PdpEmpty
    /\ NoConcurrency

NextEReporting ==
    \/ CallReporter
    \/ ValidateTransaction
    \/ ValidatePayment
    \/ ValidateAggregated
    \/ PrepareTransaction
    \/ PrepareAggregated
    \/ PreparePayment
    \/ AggregateTransactions
    \/ NextTransactionDeadline
    \/ NextPaymentDeadline
    \/ ReporterDone

SpecEReporting == InitEReporting /\ [][NextEReporting]_vars

\* ------------------------------------------------------------------------
\* pdp/connectors/memory.py: MemoryPDP
\* ------------------------------------------------------------------------

\* most invoices the model stores in one connector
MaxInvoices == 2

\* most update_status calls the model lets return, per connector
MaxUpdates == 4

\* total number of items of the lists of the sequence seqs
RECURSIVE TotalLen(_)
TotalLen(seqs) ==
    IF seqs = <<>> THEN 0 ELSE Len(seqs[1]) + TotalLen(Tail(seqs))

\* a LifecycleManager held by the connector: LifecycleManager(invoice_reference,
\* initial_status)
LifecycleManager(invoice_reference, initial) ==
    [ invoice_reference |-> invoice_reference, status |-> initial, history |-> <<>> ]

ManagerTransition_StatusBeforeReason(manager, target, reason, reason_code, amount, clock) ==
    LET outcome == Validate(manager.status, target, reason)
        event == LifecycleEvent(clock, target, reason, reason_code,
                                EventProducer(target, None), amount)
    IN IF outcome = "InvalidTransition"
       THEN [ kind |-> outcome, manager |-> manager ]
       ELSE IF outcome = "MissingReason"
       THEN [ kind |-> outcome, manager |-> [ manager EXCEPT !.status = target ] ]
       ELSE [ kind |-> "ok",
              manager |-> [ manager EXCEPT !.status = target,
                                           !.history = HistoryAppend(@, event) ] ]

\* manager.transition(target, reason=, reason_code=, amount=) while the clock
\* reads clock: the error raised (kind), and the manager as the call leaves it
ManagerTransition(manager, target, reason, reason_code, amount, clock) ==
    LET outcome == Validate(manager.status, target, reason)
        event == LifecycleEvent(clock, target, reason, reason_code,
                                EventProducer(target, None), amount)
    IN IF outcome /= "ok"
       THEN [ kind |-> outcome, manager |-> manager ]
       ELSE [ kind |-> "ok",
              manager |-> [ manager EXCEPT !.status = target,
                                           !.history = HistoryAppend(@, event) ] ]

\* _StoredInvoice(...) and its __post_init__, which builds initial_event
StoredInvoice(invoice_id, invoice, lifecycle, submitted_at, direction) ==
    [ invoice_id |-> invoice_id, invoice |-> invoice, lifecycle |-> lifecycle,
      submitted_at |-> submitted_at, direction |-> direction,
      initial_event |-> LifecycleEvent(submitted_at, "DEPOSEE", None, None, None, None) ]

InvoiceId_Fixed(counter) == <<"M", "E", "M", "-">> \o Pad(1, 6)

\* f"MEM-{counter:06d}"
InvoiceId(counter) == <<"M", "E", "M", "-">> \o Pad(counter, 6)

\* a connector operation returns value
PdpReturn(value) == [ kind |-> "returned", value |-> value ]

\* a connector operation raises the error named kind
PdpRaise(kind) == [ kind |-> kind, value |-> None ]

\* MemoryPDP._get_stored(invoice_id) finds the invoice
IsStored(invoice_id) == invoice_id \in DOMAIN pdp_invoices

\* MemoryPDP.get_status(invoice_id)
get_status(invoice_id) ==
    IF ~ IsStored(invoice_id) THEN PdpRaise("PDPNotFoundError")
    ELSE PdpReturn(pdp_invoices[invoice_id].lifecycle.status)

get_lifecycle_HistoryOnly(invoice_id) ==
    IF ~ IsStored(invoice_id) THEN PdpRaise("PDPNotFoundError")
    ELSE LET stored == pdp_invoices[invoice_id]
         IN PdpReturn([ invoice_id |-> invoice_id,
                        current_status |-> stored.lifecycle.status,
                        events |-> stored.lifecycle.history ])

\* MemoryPDP.get_lifecycle(invoice_id)
get_lifecycle(invoice_id) ==
    IF ~ IsStored(invoice_id) THEN PdpRaise("PDPNotFoundError")
    ELSE LET stored == pdp_invoices[invoice_id]
         IN PdpReturn([ invoice_id |-> invoice_id,
                        current_status |-> stored.lifecycle.status,
                        events |-> <<stored.initial_event>> \o stored.lifecycle.history ])

\* the call op(invoice_id, status, reason=...) or op(invoice), as it was made
PdpCall(op, invoice_id, target, reason, invoice) ==
    [ op |-> op, invoice_id |-> invoice_id, status |-> target, reason |-> reason,
      invoice |-> invoice ]

\* the store after MemoryPDP stores invoice under a fresh identifier: the body
\* shared by submit and add_received_invoice
Store(invoice, direction) ==
    LET invoice_id == InvoiceId(pdp_counter + 1)
        stored == StoredInvoice(invoice_id, invoice,
                                LifecycleManager(invoice, "DEPOSEE"),
                                pdp_clock, direction)
    IN /\ pdp_counter' = pdp_counter + 1
       /\ UNCHANGED pdp_clock
       /\ pdp_invoices' = [ i \in DOMAIN pdp_invoices \cup { invoice_id } |->
                               IF i = invoice_id THEN stored ELSE pdp_invoices[i] ]
       /\ pdp_issued' = Append(pdp_issued, invoice_id)
       /\ pdp_accepted' = [ i \in DOMAIN pdp_invoices \cup { invoice_id } |->
                               IF i \in DOMAIN pdp_accepted /\ i /= invoice_id
                               THEN pdp_accepted[i] ELSE <<>> ]

\* MemoryPDP.submit(invoice); the caller awaits one call at a time
Submit(invoice) ==
    /\ pdp_call = None
    /\ pdp_counter < MaxInvoices
    /\ Store(invoice, "sent")
    /\ pdp_call' = Some(PdpCall("submit", None, "", None, Some(invoice)))
    /\ pdp_response' = Some(PdpReturn([ invoice_id |-> InvoiceId(pdp_counter + 1),
                                        status |-> "DEPOSEE",
                                        submitted_at |-> pdp_clock ]))
    /\ UNCHANGED notPdpVars

\* MemoryPDP.add_received_invoice(invoice, xml_bytes)
AddReceivedInvoice(invoice) ==
    /\ pdp_call = None
    /\ pdp_counter < MaxInvoices
    /\ Store(invoice, "received")
    /\ pdp_call' = Some(PdpCall("add_received_invoice", None, "", None, Some(invoice)))
    /\ pdp_response' = Some(PdpReturn(InvoiceId(pdp_counter + 1)))
    /\ UNCHANGED notPdpVars

\* number of update_status calls that have returned so far
AcceptedUpdates ==
    TotalLen([ n \in 1..Len(pdp_issued) |-> pdp_accepted[pdp_issued[n]] ])

UpdateStatus_SharedManager(invoice_id, target, reason) ==
    /\ pdp_call = None
    /\ pdp_call' = Some(PdpCall("update_status", Some(invoice_id), target, reason, None))
    /\ IF ~ IsStored(invoice_id)
       THEN /\ pdp_response' = Some(PdpRaise("PDPNotFoundError"))
            /\ UNCHANGED <<pdp_invoices, pdp_accepted>>
       ELSE LET done == ManagerTransition(pdp_invoices[invoice_id].lifecycle, target,
                                          reason, None, None, pdp_clock)
            IN IF done.kind /= "ok"
               THEN /\ pdp_response' = Some(PdpRaise(done.kind))
                    /\ pdp_invoices' = [ i \in DOMAIN pdp_invoices |->
                                 [ pdp_invoices[i] EXCEPT !.lifecycle = done.manager ] ]
                    /\ UNCHANGED pdp_accepted
               ELSE /\ AcceptedUpdates < MaxUpdates
                    /\ pdp_invoices' = [ i \in DOMAIN pdp_invoices |->
                                 [ pdp_invoices[i] EXCEPT !.lifecycle = done.manager ] ]
                    /\ pdp_accepted' = [ pdp_accepted EXCEPT
                                             ![invoice_id] = Append(@, target) ]
                    /\ pdp_response' = Some(PdpReturn([ invoice_id |-> invoice_id,
                                                        status |-> target,
                                                        updated_at |-> pdp_clock ]))
    /\ UNCHANGED <<pdp_counter, pdp_clock, pdp_issued>>
    /\ UNCHANGED notPdpVars

\* MemoryPDP.update_status(invoice_id, status, reason=, reason_code=, amount=);
\* the model lets a call return only while fewer than MaxUpdates calls have
\* returned
UpdateStatus(invoice_id, target, reason) ==
    /\ pdp_call = None
    /\ pdp_call' = Some(PdpCall("update_status", Some(invoice_id), target, reason, None))
    /\ IF ~ IsStored(invoice_id)
       THEN /\ pdp_response' = Some(PdpRaise("PDPNotFoundError"))
            /\ UNCHANGED <<pdp_invoices, pdp_accepted>>
       ELSE LET done == ManagerTransition(pdp_invoices[invoice_id].lifecycle, target,
                                          reason, None, None, pdp_clock)
            IN IF done.kind /= "ok"
               THEN /\ pdp_response' = Some(PdpRaise(done.kind))
                    /\ pdp_invoices' = [ pdp_invoices EXCEPT
                                             ![invoice_id].lifecycle = done.manager ]
                    /\ UNCHANGED pdp_accepted
               ELSE /\ AcceptedUpdates < MaxUpdates
                    /\ pdp_invoices' = [ pdp_invoices EXCEPT
                                             ![invoice_id].lifecycle = done.manager ]
                    /\ pdp_accepted' = [ pdp_accepted EXCEPT
                                             ![invoice_id] = Append(@, target) ]
                    /\ pdp_response' = Some(PdpReturn([ invoice_id |-> invoice_id,
                                                        status |-> target,
                                                        updated_at |-> pdp_clock ]))
    /\ UNCHANGED <<pdp_counter, pdp_clock, pdp_issued>>
    /\ UNCHANGED notPdpVars

\* MemoryPDP.get_status(invoice_id), called
GetStatus(invoice_id) ==
    /\ pdp_call = None
    /\ pdp_call' = Some(PdpCall("get_status", Some(invoice_id), "", None, None))
    /\ pdp_response' = Some(get_status(invoice_id))
    /\ UNCHANGED <<pdp_invoices, pdp_counter, pdp_clock, pdp_issued, pdp_accepted>>
    /\ UNCHANGED notPdpVars

\* MemoryPDP.get_lifecycle(invoice_id), called
GetLifecycle(invoice_id) ==
    /\ pdp_call = None
    /\ pdp_call' = Some(PdpCall("get_lifecycle", Some(invoice_id), "", None, None))
    /\ pdp_response' = Some(get_lifecycle(invoice_id))
    /\ UNCHANGED <<pdp_invoices, pdp_counter, pdp_clock, pdp_issued, pdp_accepted>>
    /\ UNCHANGED notPdpVars

\* the caller has read the response and makes its next call
PdpDone ==
    /\ pdp_call /= None
    /\ pdp_call' = None
    /\ pdp_response' = None
    /\ UNCHANGED <<pdp_invoices, pdp_counter, pdp_clock, pdp_issued, pdp_accepted>>
    /\ UNCHANGED notPdpVars

\* the invoices the callers hand in, by their number
Invoices == { <<"F", "1">> }

\* the identifiers the callers ask about: every one the connector can have
\* issued, and one it never issues
AskedIds == { InvoiceId(n) : n \in 1..(MaxInvoices + 1) }

\* the (status, reason) pairs the callers pass to update_status: every status
\* without a reason, and a reason with the statuses that take one
UpdateArgs ==
    { <<target, None>> : target \in InvoiceStatus } \cup
    { <<"REFUSEE", Some(Motif)>>, <<"EN_LITIGE", Some(Motif)>> }

SubmitInvoice == \E invoice \in Invoices : Submit(invoice)

ReceiveInvoice == \E invoice \in Invoices : AddReceivedInvoice(invoice)

CallUpdateStatus ==
    \E invoice_id \in AskedIds, a \in UpdateArgs :
        UpdateStatus(invoice_id, a[1], a[2])

CallGetStatus == \E invoice_id \in AskedIds : GetStatus(invoice_id)

CallGetLifecycle == \E invoice_id \in AskedIds : GetLifecycle(invoice_id)

InitPDP ==
    /\ InitLifecycle
    /\ initial_status = "DEPOSEE"
    /\ CdarIdle
    /\ ErIdle
    /\ PdpEmpty
    /\ NoConcurrency

NextPDP ==
    \/ SubmitInvoice
    \/ ReceiveInvoice
    \/ CallUpdateStatus
    \/ CallGetStatus
    \/ CallGetLifecycle
    \/ PdpDone

SpecPDP == InitPDP /\ [][NextPDP]_vars

\* ------------------------------------------------------------------------
\* pdp/connectors/memory.py: update_status coroutines run by one event loop
\* ------------------------------------------------------------------------

\* most update_status coroutines the callers hand to the event loop together
MaxTasks == 4

Awaits_BeforeApply == { "apply" }

\* the positions of the body of update_status at which it holds an await and
\* gives control back to the event loop: there is none.  The positions are
\* "lookup" (_get_stored), "validate" and "apply" (the checks and the writes
\* of LifecycleManager.transition, a plain function) and "return"
Awaits == {}

\* the coroutine update_status(invoice_id, status, reason=reason), not started
Task(invoice_id, target, reason) ==
    [ invoice_id |-> invoice_id, status |-> target, reason |-> reason,
      pc |-> "lookup", outcome |-> None ]

\* the coroutine has raised or returned
TaskEnds(task, outcome) == [ task EXCEPT !.pc = "done", !.outcome = Some(outcome) ]

\* the writes of transition: the event, self.status = target, history.append
ManagerWrite(manager, target, reason, clock) ==
    LET event == LifecycleEvent(clock, target, reason, None,
                                EventProducer(target, None), None)
    IN [ manager EXCEPT !.status = target, !.history = HistoryAppend(@, event) ]

\* the coroutine task executes the position it is at, on the invoices store
TaskStep(store, task, clock) ==
    LET invoice_id == task.invoice_id
    IN IF task.pc = "lookup"
       THEN IF invoice_id \in DOMAIN store
            THEN [ store |-> store, task |-> [ task EXCEPT !.pc = "validate" ] ]
            ELSE [ store |-> store, task |-> TaskEnds(task, "PDPNotFoundError") ]
       ELSE IF task.pc = "validate"
       THEN LET outcome == Validate(store[invoice_id].lifecycle.status, task.status,
                                    task.reason)
            IN IF outcome = "ok"
               THEN [ store |-> store, task |-> [ task EXCEPT !.pc = "apply" ] ]
               ELSE [ store |-> store, task |-> TaskEnds(task, outcome) ]
       ELSE IF task.pc = "apply"
       THEN [ store |-> [ store EXCEPT ![invoice_id].lifecycle =
                              ManagerWrite(@, task.status, task.reason, clock) ],
              task |-> [ task EXCEPT !.pc = "return" ] ]
       ELSE [ store |-> store, task |-> TaskEnds(task, "returned") ]

\* the event loop runs the coroutine until it ends or reaches an await
RECURSIVE RunToSuspension(_, _, _)
RunToSuspension(store, task, clock) ==
    LET after == TaskStep(store, task, clock)
    IN IF after.task.pc = "done" \/ after.task.pc \in Awaits
       THEN after
       ELSE RunToSuspension(after.store, after.task, clock)

\* the manager after the accepted transitions to the statuses of path
RECURSIVE ManagerAfter(_, _, _)
ManagerAfter(manager, path, clock) ==
    IF path = <<>> THEN manager
    ELSE ManagerAfter(ManagerTransition(manager, path[1], None, None, None, clock).manager,
                      Tail(path), clock)

\* where the callers have taken the invoice, one awaited call after the
\* other, before they make concurrent calls
StartPaths ==
    { SubSeq(<<"EMISE", "RECUE", "MISE_A_DISPOSITION", "PRISE_EN_CHARGE">>, 1, n) :
          n \in 0..4 }

\* the calls the concurrent callers make: on the stored invoice, and one on an
\* identifier the connector never issued
TaskCalls ==
    << Task(InvoiceId(1), "EMISE", None),
       Task(InvoiceId(1), "PRISE_EN_CHARGE", None),
       Task(InvoiceId(1), "SUSPENDUE", None),
       Task(InvoiceId(1), "COMPLETEE", None),
       Task(InvoiceId(1), "APPROUVEE", None),
       Task(InvoiceId(1), "REFUSEE", None),
       Task(InvoiceId(1), "REFUSEE", Some(Motif)),
       Task(InvoiceId(2), "EMISE", None) >>

\* a connector holding one submitted invoice, taken along one of StartPaths
InitAsync ==
    /\ InitLifecycle
    /\ initial_status = "DEPOSEE"
    /\ CdarIdle
    /\ ErIdle
    /\ \E path \in StartPaths, invoice \in Invoices :
           LET invoice_id == InvoiceId(1)
               manager == ManagerAfter(LifecycleManager(invoice, "DEPOSEE"), path, 0)
           IN /\ pdp_invoices = [ i \in { invoice_id } |->
                                     StoredInvoice(invoice_id, invoice, manager, 0, "sent") ]
              /\ pdp_accepted = [ i \in { invoice_id } |-> path ]
              /\ pdp_issued = << invoice_id >>
    /\ pdp_counter = 1
    /\ pdp_clock = 0
    /\ pdp_call = None
    /\ pdp_response = None
    /\ NoConcurrency

\* asyncio.gather(update_status(...), ...): the coroutines become tasks of the
\* event loop; the loop may run them in any order, so they are listed in the
\* order of TaskCalls
Gather(chosen) ==
    /\ pdp_tasks = <<>>
    /\ \A k \in 1..(Len(chosen) - 1) : chosen[k] <= chosen[k + 1]
    /\ pdp_tasks' = [ k \in 1..Len(chosen) |-> TaskCalls[chosen[k]] ]
    /\ UNCHANGED <<pdpVars, threads, thr_log>>
    /\ UNCHANGED <<lcVars, cdarVars, erVars>>

\* the event loop resumes task k, which runs until it ends or awaits
Resume(k) ==
    /\ pdp_tasks[k].pc /= "done"
    /\ \E after \in { RunToSuspension(pdp_invoices, pdp_tasks[k], pdp_clock) } :
          /\ pdp_invoices' = after.store
          /\ pdp_tasks' = [ pdp_tasks EXCEPT ![k] = after.task ]
          /\ pdp_accepted' = IF after.task.outcome = Some("returned")
                              THEN [ pdp_accepted EXCEPT
                                         ![after.task.invoice_id] = Append(@, after.task.status) ]
                              ELSE pdp_accepted
    /\ UNCHANGED <<pdp_counter, pdp_clock, pdp_call, pdp_response, pdp_issued>>
    /\ UNCHANGED <<threads, thr_log>>
    /\ UNCHANGED <<lcVars, cdarVars, erVars>>

\* the callers gather their calls once
GatherTasks ==
    /\ pdp_tasks = <<>>
    /\ \E n \in 1..MaxTasks : \E chosen \in [ 1..n -> 1..Len(TaskCalls) ] : Gather(chosen)

ResumeTask == \E k \in 1..Len(pdp_tasks) : Resume(k)

NextAsync == GatherTasks \/ ResumeTask

SpecAsync == InitAsync /\ [][NextAsync]_vars

\* ------------------------------------------------------------------------
\* lifecycle/manager.py: transition with timestamps chosen by the caller
\* ------------------------------------------------------------------------

\* latest timestamp the callers of the model supply
MaxTime == 2

\* the callers pass timestamp=t, or leave it to the clock
TimedArgs ==
    { Args(Some(Motif), None, None, None, None) } \cup
    { Args(Some(Motif), None, None, None, Some(t)) : t \in 0..MaxTime }

CallTimedTransition == \E target \in InvoiceStatus, a \in TimedArgs : Call(target, a)

NextTimed == CallTimedTransition \/ transition

SpecTimed == Init /\ [][NextTimed]_vars

\* ------------------------------------------------------------------------
\* lifecycle/manager.py: long runs of one manager under a single writer
\* ------------------------------------------------------------------------

\* most accepted transitions of one run of the model
MaxRun == 12

\* the (target, arguments) a run's caller passes: every status without a
\* reason, and REFUSEE with the reason it requires
RunCalls ==
    { <<target, Args(None, None, None, None, None)>> : target \in InvoiceStatus } \cup
    { <<"REFUSEE", Args(Some(Motif), None, None, None, None)>> }

\* the single writer calls manager.transition(target, reason=...); the model
\* issues an accepted call only while the history is shorter than MaxRun
CallRun(target, a) ==
    /\ call = None
    /\ Len(history) < MaxRun \/ Validate(status, target, a.reason) /= "ok"
    /\ call' = Some([ target |-> target, args |-> a ])
    /\ result' = NoResult
    /\ UNCHANGED <<initial_status, status, history, accepted, now>>
    /\ UNCHANGED notLcVars

CallRunTransition == \E c \in RunCalls : CallRun(c[1], c[2])

NextRun == CallRunTransition \/ transition

SpecRun == Init /\ [][NextRun]_vars

\* ------------------------------------------------------------------------
\* lifecycle/manager.py: transition called by two threads without a lock
\* ------------------------------------------------------------------------

\* the two threads that share one manager
Threads == { 1, 2 }

\* a thread that is not inside transition
IdleThread == [ pc |-> "idle", target |-> "", reason |-> None, event |-> None ]

\* a manager as __init__ leaves it, shared by two threads that have not called
InitThreads ==
    /\ InitLifecycle
    /\ CdarIdle
    /\ ErIdle
    /\ PdpEmpty
    /\ pdp_tasks = <<>>
    /\ threads = [ t \in Threads |-> IdleThread ]
    /\ thr_log = <<>>

\* the threads that have passed the validations and not yet returned
InWindow == { t \in Threads : threads[t].pc \in { "status", "append" } }

\* thread t calls manager.transition(target, reason=reason); the model lets
\* at most MaxHistory calls pass the validations
ThreadCall(t, target, reason) ==
    /\ threads[t].pc = "idle"
    /\ Len(thr_log) + Cardinality({ u \in Threads : threads[u].pc = "check" }) < MaxHistory
    /\ threads' = [ threads EXCEPT ![t] = [ pc |-> "check", target |-> target,
                                            reason |-> reason, event |-> None ] ]
    /\ UNCHANGED <<lcVars, pdp_tasks, thr_log>>
    /\ UNCHANGED <<cdarVars, erVars, pdpVars>>

\* thread t runs the validations, which read self.status, and on success
\* builds the event: up to the line before self.status = target
ThreadCheck(t) ==
    /\ threads[t].pc = "check"
    /\ LET target == threads[t].target
           reason == threads[t].reason
       IN IF Validate(status, target, reason) /= "ok"
          THEN /\ threads' = [ threads EXCEPT ![t] = IdleThread ]
               /\ UNCHANGED <<now, thr_log>>
          ELSE /\ now' = now + 1
               /\ threads' = [ threads EXCEPT
                                   ![t].pc = "status",
                                   ![t].event = Some(LifecycleEvent(now', target, reason, None,
                                                         EventProducer(target, None), None)) ]
               /\ thr_log' = Append(thr_log, [ thread |-> t, seen |-> status,
                                               target |-> target,
                                               overlapped |-> InWindow /= {} ])
    /\ UNCHANGED <<initial_status, status, history, call, result, accepted>>
    /\ UNCHANGED <<cdarVars, erVars, pdpVars, pdp_tasks>>

ThreadSetStatus_Skipped(t) ==
    /\ threads[t].pc = "status"
    /\ threads' = [ threads EXCEPT ![t].pc = "append" ]
    /\ UNCHANGED <<initial_status, status, history, call, result, accepted, now>>
    /\ UNCHANGED <<cdarVars, erVars, pdpVars, pdp_tasks, thr_log>>

\* thread t executes self.status = target
ThreadSetStatus(t) ==
    /\ threads[t].pc = "status"
    /\ status' = threads[t].target
    /\ threads' = [ threads EXCEPT ![t].pc = "append" ]
    /\ UNCHANGED <<initial_status, history, call, result, accepted, now>>
    /\ UNCHANGED <<cdarVars, erVars, pdpVars, pdp_tasks, thr_log>>

\* thread t executes self.history.append(event) and returns
ThreadAppend(t) ==
    /\ threads[t].pc = "append"
    /\ history' = HistoryAppend(history, threads[t].event[1])
    /\ threads' = [ threads EXCEPT ![t] = IdleThread ]
    /\ UNCHANGED <<initial_status, status, call, result, accepted, now>>
    /\ UNCHANGED <<cdarVars, erVars, pdpVars, pdp_tasks, thr_log>>

ThreadCalls == \E t \in Threads, c \in RunCalls : ThreadCall(t, c[1], c[2].reason)

ThreadChecks == \E t \in Threads : ThreadCheck(t)

ThreadSetsStatus == \E t \in Threads : ThreadSetStatus(t)

ThreadAppends == \E t \in Threads : ThreadAppend(t)

NextThreads == ThreadCalls \/ ThreadChecks \/ ThreadSetsStatus \/ ThreadAppends

SpecThreads == InitThreads /\ [][NextThreads]_vars

\* ------------------------------------------------------------------------
\* Properties of the lifecycle manager
\* ------------------------------------------------------------------------

\* the 24 edges of the transition table
Edges ==
    { <<"DEPOSEE", "EMISE">>, <<"DEPOSEE", "REJETEE_EMISSION">>,
      <<"EMISE", "RECUE">>, <<"EMISE", "REJETEE_RECEPTION">>,
      <<"RECUE", "MISE_A_DISPOSITION">>, <<"RECUE", "REJETEE_RECEPTION">>,
      <<"MISE_A_DISPOSITION", "PRISE_EN_CHARGE">>,
      <<"MISE_A_DISPOSITION", "REJETEE_RECEPTION">>,
      <<"PRISE_EN_CHARGE", "APPROUVEE">>,
      <<"PRISE_EN_CHARGE", "PARTIELLEMENT_APPROUVEE">>,
      <<"PRISE_EN_CHARGE", "REFUSEE">>, <<"PRISE_EN_CHARGE", "EN_LITIGE">>,
      <<"PRISE_EN_CHARGE", "SUSPENDUE">>,
      <<"APPROUVEE", "PAIEMENT_TRANSMIS">>, <<"APPROUVEE", "ENCAISSEE">>,
      <<"PARTIELLEMENT_APPROUVEE", "PAIEMENT_TRANSMIS">>,
      <<"PARTIELLEMENT_APPROUVEE", "REFUSEE">>,
      <<"PARTIELLEMENT_APPROUVEE", "EN_LITIGE">>,
      <<"EN_LITIGE", "APPROUVEE">>, <<"EN_LITIGE", "REFUSEE">>,
      <<"EN_LITIGE", "SUSPENDUE">>,
      <<"SUSPENDUE", "COMPLETEE">>,
      <<"COMPLETEE", "PRISE_EN_CHARGE">>,
      <<"PAIEMENT_TRANSMIS", "ENCAISSEE">> }

FourTerminal == { "REJETEE_EMISSION", "REJETEE_RECEPTION", "REFUSEE", "ENCAISSEE" }

FiveMandatory ==
    { "DEPOSEE", "REJETEE_EMISSION", "REFUSEE", "REJETEE_RECEPTION", "ENCAISSEE" }

LastEvent == history[Len(history)]

\* C1, first half: in every state, can_transition(t) is true exactly for the
\* targets t such that (status, t) is one of the 24 edges.
C1_CanTransitionIsEdge ==
    /\ Cardinality(Edges) = 24
    /\ \A t \in InvoiceStatus : can_transition(t) <=> <<status, t>> \in Edges

\* C1, second half: a transition call along an edge, with a reason when the
\* target is REFUSEE, returns an event of the target status and leaves the
\* manager at the target.
C1_EdgeCallSucceeds ==
    ( /\ call /= None
      /\ <<status, call[1].target>> \in Edges
      /\ (call[1].target = "REFUSEE" => Truthy(call[1].args.reason)) )
    => /\ result'.kind = "ok"
       /\ result'.event[1].status = call[1].target
       /\ status' = call[1].target

\* C1: can_transition(t) holds exactly on the 24 edges of the table, and
\* transition(t) along every edge succeeds, returns an event with status t
\* and leaves manager.status = t.
C1_Theorem == [] C1_CanTransitionIsEdge /\ [][C1_EdgeCallSucceeds]_vars

\* a manager created at EN_LITIGE that took the edge to REFUSEE with a reason
C1_Witness ==
    /\ initial_status = "EN_LITIGE"
    /\ status = "REFUSEE"
    /\ result.kind = "ok"
    /\ result.event[1].status = "REFUSEE"
    /\ result.event[1].reason = Some(Motif)

\* the step that runs a call whose target is not allowed from the status
C2_IllegalTargetRejected ==
    (call /= None /\ call[1].target \notin Elems(TRANSITIONS[status]))
    => /\ result'.kind = "InvalidTransition"
       /\ status' = status
       /\ history' = history

\* C2: a transition call whose target is not an allowed target of the
\* current status raises the invalid-transition error, whatever its other
\* arguments, and leaves status and history as they were.
C2_Theorem == [][C2_IllegalTargetRejected]_vars

\* a rejected call on a manager that already holds an event
C2_Witness ==
    /\ result.kind = "InvalidTransition"
    /\ Len(history) >= 1
    /\ status = LastEvent.status

\* the step that runs a call to an allowed target that requires a reason
C3_ReasonEnforced ==
    ( /\ call /= None
      /\ call[1].target \in Elems(TRANSITIONS[status])
      /\ STATUS_METADATA[call[1].target].reason_required )
    => IF call[1].args.reason = None \/ call[1].args.reason = Some(EmptyStr)
       THEN /\ result'.kind = "MissingReason"
            /\ status' = status
            /\ history' = history
       ELSE /\ result'.kind = "ok"
            /\ result'.event[1].reason = call[1].args.reason
            /\ status' = call[1].target

C3_OnlyRefuseeRequiresReason ==
    { s \in InvoiceStatus : STATUS_METADATA[s].reason_required } = { "REFUSEE" }

\* C3: only REFUSEE requires a reason; a call to an allowed target that
\* requires one raises the missing-reason error and changes nothing when the
\* reason is absent or empty, and with a non-empty reason it succeeds and the
\* returned event carries the supplied reason.
C3_Theorem == [] C3_OnlyRefuseeRequiresReason /\ [][C3_ReasonEnforced]_vars

\* a refusal without reason was rejected at PRISE_EN_CHARGE after one event
C3_Witness ==
    /\ result.kind = "MissingReason"
    /\ status = "PRISE_EN_CHARGE"
    /\ Len(history) = 1

\* any step taken from a terminal status
C4_TerminalIsFinal ==
    status \in FourTerminal
    => /\ status' = status
       /\ history' = history
       /\ call /= None => result'.kind = "InvalidTransition"

C4_TerminalSetExact ==
    /\ TERMINAL_STATUSES = FourTerminal
    /\ is_terminal <=> status \in FourTerminal

\* C4: the terminal statuses are exactly the four; is_terminal() is true
\* exactly on them; in a terminal status every transition call fails and
\* status and history never change again.
C4_Theorem == [] C4_TerminalSetExact /\ [][C4_TerminalIsFinal]_vars

\* a call was rejected on a manager that reached a terminal status
C4_Witness ==
    /\ is_terminal
    /\ Len(history) >= 1
    /\ result.kind = "InvalidTransition"

\* C5, per call: an accepted call appends exactly its event at the end of
\* history, a rejected call leaves history as it was.
C5_OneEventPerAcceptedCall ==
    IF call /= None /\ result'.kind = "ok"
    THEN /\ history' = Append(history, result'.event[1])
         /\ result'.event[1].status = call[1].target
    ELSE history' = history

\* C5, over a run: history is as long as the number of accepted calls and
\* its statuses are the accepted targets in call order.
C5_HistoryIsAcceptedCalls ==
    /\ Len(history) = Len(accepted)
    /\ \A i \in 1..Len(history) : history[i].status = accepted[i]

\* C5: every accepted transition appends one event at the end of history and
\* keeps the earlier events, a rejected one appends none; the history lists
\* the accepted targets in call order.
C5_Theorem == [] C5_HistoryIsAcceptedCalls /\ [][C5_OneEventPerAcceptedCall]_vars

\* two accepted calls with different targets, then a rejected one
C5_Witness ==
    /\ Len(history) = 2
    /\ history[1].status = "SUSPENDUE"
    /\ history[2].status = "COMPLETEE"
    /\ result.kind = "InvalidTransition"

IsFiveMandatoryEvent(e) == e.status \in FiveMandatory

\* C6: mandatory_events() is history filtered, in order, to the events whose
\* status is one of the five mandatory statuses, and is_mandatory(s) is true
\* for exactly these five.
C6_Theorem ==
    /\ mandatory_events = SelectSeq(history, IsFiveMandatoryEvent)
    /\ \A s \in InvoiceStatus : is_mandatory(s) <=> s \in FiveMandatory

\* a history with a recommended event followed by a mandatory one
C6_Witness ==
    /\ Len(history) = 2
    /\ history[1].status = "APPROUVEE"
    /\ history[2].status = "ENCAISSEE"
    /\ mandatory_events = <<history[2]>>

C8_ProducerRecorded ==
    (call /= None /\ result'.kind = "ok")
    => result'.event[1].producer =
          IF call[1].args.producer = None
          THEN Some(STATUS_METADATA[call[1].target].default_producer)
          ELSE call[1].args.producer

\* C8: an accepted transition records the target's default producer when the
\* producer is omitted, and the supplied producer otherwise.
C8_Theorem == [][C8_ProducerRecorded]_vars

\* APPROUVEE defaults to the buyer; the second event was given the seller
C8_Witness ==
    /\ Len(history) = 2
    /\ history[1].status = "APPROUVEE"
    /\ history[1].producer = Some("BY")
    /\ history[2].producer = Some("SE")
    /\ STATUS_METADATA[history[2].status].default_producer /= "SE"

\* ------------------------------------------------------------------------
\* Properties of the CDAR codec
\* ------------------------------------------------------------------------

\* the fields the roundtrip contract lists
RoundtripFields(m) ==
    << m.message_id, m.status_code, m.invoice_reference, m.sender, m.recipients,
       m.reason, m.reason_code, m.amount >>

\* C9: parsing the generated XML of any message gives back its message id,
\* status code, invoice reference, sender, recipients in order, reason,
\* reason code and amount.
C9_Roundtrip ==
    (cdar_parsed /= None /\ cdar_tampered = 0)
    => /\ cdar_parsed[1].kind = "ok"
       /\ RoundtripFields(cdar_parsed[1].message[1]) = RoundtripFields(cdar_message[1])

\* the places whose absence the parser must refuse
C10_RequiredPaths ==
    { DocPath,
      DocPath \o <<"ram:ID">>,
      DocPath \o <<"ram:StatusCode">>,
      DocPath \o <<"ram:IssueDateTime", "udt:DateTimeString">>,
      DocPath \o <<"ram:SenderTradeParty">>,
      AckPath \o <<"ram:ReferenceReferencedDocument", "ram:IssuerAssignedID">> }

KnownStatusCodes == { StatusValue[s] : s \in InvoiceStatus }

C10_UnknownStatus(x) ==
    LET code == FindIn(Find(x, "rsm:ExchangedDocument"), "ram:StatusCode")
    IN code /= None /\ code[1].text /= None /\ code[1].text[1] \notin KnownStatusCodes

\* C10: parse raises and returns no message whenever the ExchangedDocument,
\* its ID, its StatusCode, its IssueDateTime/DateTimeString, the
\* SenderTradeParty or the acknowledgement's
\* ReferenceReferencedDocument/IssuerAssignedID is absent, and whenever the
\* status code is not the code of a known status.
C10_Theorem ==
    ( /\ cdar_parsed /= None
      /\ \/ \E p \in C10_RequiredPaths : ~HasPath(cdar_xml[1], p)
         \/ C10_UnknownStatus(cdar_xml[1]) )
    => /\ cdar_parsed[1].kind = "error"
       /\ cdar_parsed[1].message = None

\* a complete message with recipients, reason and amount lost its document
\* ID on the way and was refused
C10_Witness ==
    /\ cdar_parsed /= None
    /\ cdar_tampered = 1
    /\ cdar_message[1].message_id /= EmptyStr
    /\ cdar_message[1].invoice_reference /= EmptyStr
    /\ Len(cdar_message[1].recipients) = 2
    /\ ~HasPath(cdar_xml[1], DocPath \o <<"ram:ID">>)
    /\ HasPath(cdar_xml[1], DocPath \o <<"ram:StatusCode">>)
    /\ cdar_parsed[1].kind = "error"

\* ------------------------------------------------------------------------
\* E-reporting properties
\* ------------------------------------------------------------------------

\* the reporter operation op has come back from its call
Completed(op) == er_call /= None /\ er_result /= None /\ er_call[1].op = op

\* the argument and the outcome of the completed call
ErArg == er_call[1].arg

ErOut == er_result[1]

International == { "B2B_INTRA_EU", "B2B_EXTRA_EU" }

\* the four rules of validate_transaction, as the set of those t violates
ViolatedRules(t) ==
    { r \in 1..4 :
        \/ r = 1 /\ t.seller_siren /= er_seller_siren
        \/ r = 2 /\ t.transaction_type \in International
                 /\ (t.country_code = None \/ t.country_code = Some(FR))
        \/ r = 3 /\ t.vat_rate = None /\ ~ t.vat_exemption
        \/ r = 4 /\ t.invoice_date = None /\ t.period_start = None }

\* the errors validate_transaction reports for rule r
RuleErrors(r) ==
    IF r = 1 THEN { "siren mismatch" }
    ELSE IF r = 2 THEN { "country code required", "country code cannot be FR" }
    ELSE IF r = 3 THEN { "vat rate or exemption required" }
    ELSE { "invoice date or period start required" }

\* C11: validate_transaction returns one error per violated rule among the
\* four (SIREN mismatch, international without a foreign country code, neither
\* rate nor exemption, neither invoice date nor period start): as many errors
\* as violated rules, none suppressing another, none when no rule is violated
C11_Theorem ==
    Completed("validate_transaction") =>
        LET errors == ErOut.value
            violated == ViolatedRules(ErArg)
        IN /\ ErOut.kind = "returned"
           /\ Len(errors) = Cardinality(violated)
           /\ \A r \in 1..4 :
                  r \in violated <=> \E i \in 1..Len(errors) : errors[i] \in RuleErrors(r)
           /\ errors = <<>> <=> violated = {}

\* a transaction that violates the four rules at once has been validated
C11_Witness ==
    /\ Completed("validate_transaction")
    /\ ViolatedRules(ErArg) = 1..4
    /\ Len(ErOut.value) = 4

\* every breakdown of the aggregate has taxable amount 0 and VAT amount 0
AllBreakdownsZero(aggregated) ==
    \A i \in 1..Len(aggregated.tax_breakdowns) :
        /\ aggregated.tax_breakdowns[i].taxable_amount = 0
        /\ aggregated.tax_breakdowns[i].vat_amount = 0

\* C12: validate_aggregated raises the empty-declaration error exactly when
\* every breakdown has taxable amount 0 and VAT amount 0; otherwise it returns
\* a list holding the SIREN-mismatch error iff the SIREN is not the reporter's
C12_Original ==
    Completed("validate_aggregated") =>
        /\ ErOut.kind = "empty_declaration" <=> AllBreakdownsZero(ErArg)
        /\ ~ AllBreakdownsZero(ErArg) =>
               /\ ErOut.kind = "returned"
               /\ ErOut.value = IF ErArg.seller_siren /= er_seller_siren
                                THEN <<"siren mismatch">> ELSE <<>>

\* what the matching validate_* operation gives for the completed prepare call
MatchingValidation ==
    IF er_call[1].op = "prepare_transaction" THEN ErReturn(validate_transaction(ErArg))
    ELSE IF er_call[1].op = "prepare_payment" THEN ErReturn(validate_payment(ErArg))
    ELSE validate_aggregated(ErArg)

\* the submission that wraps the argument of the completed prepare call
ExpectedSubmission ==
    IF er_call[1].op = "prepare_transaction"
    THEN [ transmission_mode |-> "INDIVIDUAL", transaction_data |-> Some(ErArg),
           aggregated_data |-> None, payment_data |-> None ]
    ELSE IF er_call[1].op = "prepare_payment"
    THEN [ transmission_mode |-> "INDIVIDUAL", transaction_data |-> None,
           aggregated_data |-> None, payment_data |-> Some(ErArg) ]
    ELSE [ transmission_mode |-> "AGGREGATED", transaction_data |-> None,
           aggregated_data |-> Some(ErArg), payment_data |-> None ]

C14_Original ==
    er_call /= None /\ er_result /= None /\ ErOut.kind = "validation_error" =>
        ErOut.errors /= <<>>

\* the transactions carry more than one distinct seller SIREN
MixedSirens(transactions) ==
    \E i, j \in 1..Len(transactions) :
        transactions[i].seller_siren /= transactions[j].seller_siren

\* C15: aggregate_transactions raises the empty-declaration error on an empty
\* list, a validation error when the transactions carry more than one seller
\* SIREN, and succeeds otherwise, also when the common SIREN is not the reporter's
C15_Theorem ==
    Completed("aggregate_transactions") =>
        /\ ErArg = <<>> => ErOut.kind = "empty_declaration"
        /\ ErArg /= <<>> /\ MixedSirens(ErArg) => ErOut.kind = "validation_error"
        /\ ErArg /= <<>> /\ ~ MixedSirens(ErArg) =>
               /\ ErOut.kind = "returned"
               /\ ErOut.value.seller_siren = ErArg[1].seller_siren

\* transactions of one seller that is not the reporter have been aggregated
C15_Witness ==
    /\ Completed("aggregate_transactions")
    /\ Len(ErArg) >= 2
    /\ ~ MixedSirens(ErArg)
    /\ ErArg[1].seller_siren /= er_seller_siren
    /\ ErOut.kind = "returned"

\* the (VAT rate, exemption flag) pairs occurring in the transactions
Pairs(transactions) ==
    { <<transactions[i].vat_rate, transactions[i].vat_exemption>> :
          i \in 1..Len(transactions) }

\* sums of total_excl_tax and of vat_amount over the transactions in keep
SumExclTax(transactions, keep) ==
    SumSeq([ i \in 1..Len(transactions) |->
                 IF i \in keep THEN transactions[i].total_excl_tax ELSE 0 ])

SumVat(transactions, keep) ==
    SumSeq([ i \in 1..Len(transactions) |->
                 IF i \in keep THEN transactions[i].vat_amount ELSE 0 ])

\* positions of the transactions with the pair of breakdown b
WithPairOf(transactions, b) ==
    { i \in 1..Len(transactions) :
          /\ transactions[i].vat_rate = b.vat_rate
          /\ transactions[i].vat_exemption = b.vat_exemption }

\* C16: for a non-empty list with one seller SIREN, aggregate_transactions gives
\* exactly one breakdown per distinct (VAT rate, exemption flag) pair, holding
\* the sums of total_excl_tax and vat_amount over the transactions of that
\* pair; the aggregate's totals are the sums over all the transactions
C16_Theorem ==
    Completed("aggregate_transactions") /\ ErArg /= <<>> /\ ~ MixedSirens(ErArg) =>
        LET breakdowns == ErOut.value.tax_breakdowns
        IN /\ Len(breakdowns) = Cardinality(Pairs(ErArg))
           /\ { <<breakdowns[k].vat_rate, breakdowns[k].vat_exemption>> :
                     k \in 1..Len(breakdowns) } = Pairs(ErArg)
           /\ \A k \in 1..Len(breakdowns) :
                  /\ breakdowns[k].taxable_amount =
                         SumExclTax(ErArg, WithPairOf(ErArg, breakdowns[k]))
                  /\ breakdowns[k].vat_amount =
                         SumVat(ErArg, WithPairOf(ErArg, breakdowns[k]))
           /\ total_excl_tax(ErOut.value) = SumExclTax(ErArg, 1..Len(ErArg))
           /\ total_vat(ErOut.value) = SumVat(ErArg, 1..Len(ErArg))

\* three transactions at two pairs gave two breakdowns, one summing 100.00 and
\* 200.00 at 20 % into 300.00 and 60.00
C16_Witness ==
    /\ Completed("aggregate_transactions")
    /\ ErOut.kind = "returned"
    /\ Len(ErArg) = 3
    /\ Len(ErOut.value.tax_breakdowns) = 2
    /\ \E k \in 1..2 :
           /\ ErOut.value.tax_breakdowns[k].vat_rate = Some(20)
           /\ ErOut.value.tax_breakdowns[k].taxable_amount = 30000
           /\ ErOut.value.tax_breakdowns[k].vat_amount = 6000

\* breakdown a comes before breakdown b: no rate before any rate, then rate
\* ascending, then exemption flag false before true
SortsBefore(a, b) ==
    \/ a.vat_rate = None /\ b.vat_rate /= None
    \/ a.vat_rate /= None /\ b.vat_rate /= None /\ a.vat_rate[1] < b.vat_rate[1]
    \/ a.vat_rate = b.vat_rate /\ ~ a.vat_exemption /\ b.vat_exemption

\* C17: the breakdowns returned by aggregate_transactions are sorted by VAT
\* rate ascending, a breakdown without rate before one with rate 0, and among
\* equal rates by exemption flag, false before true
C17_Original ==
    Completed("aggregate_transactions") /\ ErOut.kind = "returned" =>
        \A i, j \in 1..Len(ErOut.value.tax_breakdowns) :
            i < j => SortsBefore(ErOut.value.tax_breakdowns[i],
                                 ErOut.value.tax_breakdowns[j])

\* the 10th, the 20th and the last day of the month of d
DeadlinesOfMonth(year, month) ==
    { Date(year, month, 10), Date(year, month, 20),
      Date(year, month, monthrange(year, month)) }

\* the month after the month of d, as <<year, month>>
FollowingMonth(d) ==
    IF d.month = 12 THEN <<d.year + 1, 1>> ELSE <<d.year, d.month + 1>>

\* every 10th, 20th and month end of the month of d and of the following one
NearDeadlines(d) ==
    DeadlinesOfMonth(d.year, d.month) \cup
    DeadlinesOfMonth(FollowingMonth(d)[1], FollowingMonth(d)[2])

\* C18: for REAL_NORMAL_MONTHLY and REAL_NORMAL_QUARTERLY and every date d,
\* next_transaction_deadline(d) is the earliest of the 10th, the 20th and the
\* last day of d's month strictly after d, or the 10th of the following month
\* when d is the last day of its month; it is strictly after d and no 10th,
\* 20th or month end lies strictly between d and it
C18_Theorem ==
    /\ Completed("next_transaction_deadline")
    /\ er_vat_regime \in { "REAL_NORMAL_MONTHLY", "REAL_NORMAL_QUARTERLY" }
    => LET d == ErArg
           r == ErOut.value
           later == { c \in DeadlinesOfMonth(d.year, d.month) : DateLess(d, c) }
       IN /\ DateLess(d, r)
          /\ r \in NearDeadlines(d)
          /\ \A c \in NearDeadlines(d) : ~ (DateLess(d, c) /\ DateLess(c, r))
          /\ later /= {} => r \in later
          /\ d.day = monthrange(d.year, d.month) <=>
                 r = Date(FollowingMonth(d)[1], FollowingMonth(d)[2], 10)

\* from 31 December the deadline is 10 January of the next year
C18_Witness ==
    /\ Completed("next_transaction_deadline")
    /\ er_vat_regime = "REAL_NORMAL_MONTHLY"
    /\ ErArg.month = 12 /\ ErArg.day = 31
    /\ ErOut.value = Date(ErArg.year + 1, 1, 10)

\* the last day of the calendar month that follows the month of d
LastDayOfFollowingMonth(d) ==
    Date(FollowingMonth(d)[1], FollowingMonth(d)[2],
         monthrange(FollowingMonth(d)[1], FollowingMonth(d)[2]))

\* C19: for SIMPLIFIED_REAL and FRANCHISE and every date d, also the 1st of a
\* month, next_transaction_deadline(d) is the last day of the month following
\* d's month (January of the next year for December); next_payment_deadline(d)
\* is that same date for every regime except FRANCHISE, where it is none
C19_Theorem ==
    /\ Completed("next_transaction_deadline")
       /\ er_vat_regime \in { "SIMPLIFIED_REAL", "FRANCHISE" }
       => ErOut.value = LastDayOfFollowingMonth(ErArg)
    /\ Completed("next_payment_deadline")
       => ErOut.value = IF er_vat_regime = "FRANCHISE" THEN None
                        ELSE Some(LastDayOfFollowingMonth(ErArg))

\* from 1 December a FRANCHISE reporter gets 31 January of the next year
C19_Witness ==
    /\ Completed("next_transaction_deadline")
    /\ er_vat_regime = "FRANCHISE"
    /\ ErArg.month = 12 /\ ErArg.day = 1
    /\ ErOut.value = Date(ErArg.year + 1, 1, 31)

\* ------------------------------------------------------------------------
\* MemoryPDP properties
\* ------------------------------------------------------------------------

\* the connector operation op has returned
PdpReturned(op) ==
    pdp_call /= None /\ pdp_call[1].op = op /\ pdp_response[1].kind = "returned"

\* C20: for every stored invoice, after any sequence of update_status calls,
\* get_lifecycle returns the initial DEPOSEE event followed by the manager's
\* history: 1 + (number of accepted update_status calls) events, the first of
\* status DEPOSEE, the others the accepted targets in call order, and
\* current_status is the status of the last event
C20_Theorem ==
    PdpReturned("get_lifecycle") =>
        LET invoice_id == pdp_call[1].invoice_id[1]
            response == pdp_response[1].value
            targets == pdp_accepted[invoice_id]
        IN /\ response.invoice_id = invoice_id
           /\ Len(response.events) = 1 + Len(targets)
           /\ response.events[1].status = "DEPOSEE"
           /\ \A k \in 1..Len(targets) : response.events[k + 1].status = targets[k]
           /\ response.current_status = response.events[Len(response.events)].status

\* get_lifecycle has returned three events for an invoice updated twice
C20_Witness ==
    /\ PdpReturned("get_lifecycle")
    /\ Len(pdp_accepted[pdp_call[1].invoice_id[1]]) = 2
    /\ Len(pdp_response[1].value.events) = 3
    /\ pdp_response[1].value.current_status = "RECUE"

\* the connector operation op has just been called and has raised or returned
PdpCompletes(op) == pdp_call = None /\ pdp_call' /= None /\ pdp_call'[1].op = op

\* what get_status and get_lifecycle give for every identifier a caller can ask
PdpObserved == [ i \in AskedIds |-> <<get_status(i), get_lifecycle(i)>> ]

\* the outcome the claim gives update_status(invoice_id, target, reason=reason)
UpdateOutcome(invoice_id, target, reason) ==
    IF ~ IsStored(invoice_id) THEN "PDPNotFoundError"
    ELSE IF ~ CanTransitionFrom(pdp_invoices[invoice_id].lifecycle.status, target)
    THEN "InvalidTransition"
    ELSE IF target = "REFUSEE" /\ reason = None THEN "MissingReason"
    ELSE "returned"

\* one update_status call, as C21 describes it
C21_Step ==
    PdpCompletes("update_status") =>
        LET invoice_id == pdp_call'[1].invoice_id[1]
            target == pdp_call'[1].status
            outcome == pdp_response'[1].kind
        IN /\ outcome = UpdateOutcome(invoice_id, target, pdp_call'[1].reason)
           /\ outcome /= "returned" => PdpObserved' = PdpObserved
           /\ outcome = "returned" =>
                  \A i \in AskedIds : i = invoice_id => get_status(i)' = PdpReturn(target)

\* C21: update_status raises not-found for an unknown invoice id and the
\* Lifecycle Manager's error for an illegal target or a REFUSEE without reason;
\* in each failing case get_status and get_lifecycle give the same as before
\* the call; on success get_status returns the requested status
C21_Theorem == [][C21_Step]_vars

\* REFUSEE without reason has been refused for an invoice at PRISE_EN_CHARGE,
\* which is still at PRISE_EN_CHARGE with its five events
C21_Witness ==
    /\ pdp_call /= None
    /\ pdp_call[1].op = "update_status"
    /\ pdp_call[1].status = "REFUSEE"
    /\ pdp_response[1].kind = "MissingReason"
    /\ get_status(pdp_call[1].invoice_id[1]) = PdpReturn("PRISE_EN_CHARGE")
    /\ Len(get_lifecycle(pdp_call[1].invoice_id[1]).value.events) = 5

\* an invoice has just been stored by submit or add_received_invoice
PdpStores == PdpCompletes("submit") \/ PdpCompletes("add_received_invoice")

\* one connector call, as C22 describes it
C22_Step ==
    /\ PdpCompletes("update_status") =>
           \A i \in AskedIds :
               Some(i) /= pdp_call'[1].invoice_id => PdpObserved'[i] = PdpObserved[i]
    /\ PdpStores =>
           \A i \in AskedIds :
               IF i = pdp_issued'[Len(pdp_issued')]
               THEN /\ ~ IsStored(i)
                    /\ get_status(i)' = PdpReturn("DEPOSEE")
                    /\ pdp_invoices'[i].lifecycle.history = <<>>
               ELSE PdpObserved'[i] = PdpObserved[i]

\* C22: the lifecycles of the invoices of one connector are independent: an
\* update_status call on one invoice, accepted or rejected, changes neither the
\* status nor the event list of any other invoice, and every submit or
\* add_received_invoice creates its own manager at DEPOSEE with an empty history
C22_Theorem == [][C22_Step]_vars

\* the second invoice has been moved to EMISE while the first one, updated
\* twice before, is still at RECUE with its three events
C22_Witness ==
    /\ PdpReturned("update_status")
    /\ pdp_call[1].invoice_id = Some(InvoiceId(2))
    /\ get_status(InvoiceId(2)) = PdpReturn("EMISE")
    /\ get_status(InvoiceId(1)) = PdpReturn("RECUE")
    /\ Len(get_lifecycle(InvoiceId(1)).value.events) = 3

\* the counter value an identifier of the form MEM-<counter> carries
IdCounter(invoice_id) == CHOOSE n \in 0..(MaxInvoices + 1) : invoice_id = InvoiceId(n)

\* C23: across any sequence of submit and add_received_invoice calls on one
\* connector, every call returns an identifier that no earlier call returned,
\* MEM- followed by a strictly increasing counter, so no stored invoice is ever
\* overwritten: the stored invoices are those of the calls, as many as the calls
C23_Theorem ==
    /\ \A n \in 1..Len(pdp_issued) :
           /\ \E c \in 1..(MaxInvoices + 1) : pdp_issued[n] = InvoiceId(c)
           /\ \A m \in 1..(n - 1) :
                  /\ pdp_issued[m] /= pdp_issued[n]
                  /\ IdCounter(pdp_issued[m]) < IdCounter(pdp_issued[n])
           /\ IsStored(pdp_issued[n])
           /\ pdp_invoices[pdp_issued[n]].invoice_id = pdp_issued[n]
    /\ Cardinality(DOMAIN pdp_invoices) = Len(pdp_issued)
    /\ PdpReturned("submit") =>
           pdp_response[1].value.invoice_id = pdp_issued[Len(pdp_issued)]
    /\ PdpReturned("add_received_invoice") =>
           pdp_response[1].value = pdp_issued[Len(pdp_issued)]

\* add_received_invoice has returned MEM-000002 after a submit returned
\* MEM-000001, and both invoices are stored
C23_Witness ==
    /\ PdpReturned("add_received_invoice")
    /\ pdp_response[1].value = <<"M", "E", "M", "-", "0", "0", "0", "0", "0", "2">>
    /\ pdp_issued[1] = <<"M", "E", "M", "-", "0", "0", "0", "0", "0", "1">>
    /\ pdp_invoices[pdp_issued[1]].direction = "sent"
    /\ pdp_invoices[pdp_issued[2]].direction = "received"

\* ------------------------------------------------------------------------
\* Properties of transition: timestamps, runs, paths
\* ------------------------------------------------------------------------

\* a transition call carrying a timestamp is completing
TimedCall == call /= None /\ call[1].args.timestamp /= None

\* one completed call with a caller-supplied timestamp: whether it is accepted
\* depends on the target and the reason alone, and the event carries the
\* timestamp as supplied, whatever the timestamps already in history
C24_Step ==
    TimedCall /\ call' = None =>
        LET target == call[1].target
            a == call[1].args
        IN IF CanTransitionFrom(status, target) /\ ~ ReasonMissing(target, a.reason)
           THEN /\ result'.kind = "ok"
                /\ result'.event[1].timestamp = a.timestamp[1]
                /\ Len(history') = Len(history) + 1
                /\ history'[Len(history')].timestamp = a.timestamp[1]
                /\ \A k \in 1..Len(history) : history'[k] = history[k]
           ELSE result'.kind /= "ok" /\ history' = history

\* C24: transition does not compare a caller-supplied timestamp with earlier
\* events: a legal transition whose timestamp is earlier than the timestamp of
\* the last event in history is accepted and recorded with exactly that
\* timestamp, so the timestamps in history need not be non-decreasing
C24_Theorem == [][C24_Step]_vars

\* a history whose second event is earlier than its first
C24_Witness ==
    /\ Len(history) = 2
    /\ history[2].timestamp < history[1].timestamp
    /\ result.kind = "ok"
    /\ result.event[1].timestamp = history[2].timestamp

\* the status the manager had before its k-th accepted transition
StatusBefore(k) == IF k = 1 THEN initial_status ELSE history[k - 1].status

\* s0, history[0].status, ..., history[n-1].status
RunStatuses == <<initial_status>> \o [ k \in 1..Len(history) |-> history[k].status ]

\* the accepted transitions that took the edge COMPLETEE -> PRISE_EN_CHARGE
LoopEdgesTaken ==
    { k \in 1..Len(history) :
          StatusBefore(k) = "COMPLETEE" /\ history[k].status = "PRISE_EN_CHARGE" }

\* C25: every cycle of the transition graph passes through the edge COMPLETEE ->
\* PRISE_EN_CHARGE: a run that never takes that edge never comes back to a
\* status it has had and, when it starts at DEPOSEE, performs at most 9
\* accepted transitions; a run that takes it is back at PRISE_EN_CHARGE, not
\* terminal, from where SUSPENDUE, COMPLETEE and the edge can be taken again
C25_Theorem ==
    /\ LoopEdgesTaken = {} =>
           /\ \A m, n \in 1..Len(RunStatuses) : m /= n => RunStatuses[m] /= RunStatuses[n]
           /\ initial_status = "DEPOSEE" => Len(history) <= 9
    /\ status = "PRISE_EN_CHARGE" =>
           /\ ~ is_terminal
           /\ can_transition("SUSPENDUE")
           /\ CanTransitionFrom("SUSPENDUE", "COMPLETEE")
           /\ CanTransitionFrom("COMPLETEE", "PRISE_EN_CHARGE")
           /\ {"SUSPENDUE", "COMPLETEE"} \cap TERMINAL_STATUSES = {}

\* a run from DEPOSEE that has taken the edge at least twice: it has as many
\* accepted transitions as the model allows, more than 9, and is not terminal
C25_Witness ==
    /\ initial_status = "DEPOSEE"
    /\ Cardinality(LoopEdgesTaken) >= 2
    /\ Len(history) = MaxRun
    /\ Len(history) > 9
    /\ ~ is_terminal

\* C28: under single-writer use, after any sequence of transition calls on a
\* manager created with initial status s0, the sequence s0, history[0].status,
\* ..., history[n-1].status is a path in the transition graph and the current
\* status is the status of the last event, s0 when the history is empty
C28_Theorem ==
    /\ \A k \in 1..Len(history) : history[k].status \in Elems(TRANSITIONS[StatusBefore(k)])
    /\ status = RunStatuses[Len(RunStatuses)]
    /\ status = IF history = <<>> THEN initial_status ELSE LastEvent.status

\* a manager created at EN_LITIGE has gone through the suspension loop and on
\* to ENCAISSEE, with rejected calls in between
C28_Witness ==
    /\ initial_status = "EN_LITIGE"
    /\ Len(history) = 5
    /\ status = "ENCAISSEE"
    /\ history[3].status = "PRISE_EN_CHARGE"
    /\ result.kind = "InvalidTransition"

\* C29: for a manager created at DEPOSEE, after any sequence of transition
\* calls, no event in history has status DEPOSEE, mandatory_events() has at
\* most one element, and it is non-empty exactly when is_terminal() is true,
\* in which case its only element is the last event of history
C29_Theorem ==
    initial_status = "DEPOSEE" =>
        /\ \A k \in 1..Len(history) : history[k].status /= "DEPOSEE"
        /\ Len(mandatory_events) <= 1
        /\ mandatory_events /= <<>> <=> is_terminal
        /\ is_terminal => mandatory_events = <<LastEvent>>

\* a manager created at DEPOSEE has reached ENCAISSEE after nine transitions,
\* and its only mandatory event is the ninth
C29_Witness ==
    /\ initial_status = "DEPOSEE"
    /\ Len(history) = 9
    /\ is_terminal
    /\ status = "ENCAISSEE"
    /\ mandatory_events = <<history[9]>>

\* ------------------------------------------------------------------------
\* Properties of concurrent update_status calls
\* ------------------------------------------------------------------------

\* every gathered coroutine has raised or returned
AllTasksDone == pdp_tasks /= <<>> /\ \A k \in 1..Len(pdp_tasks) : pdp_tasks[k].pc = "done"

\* the gathered calls that returned
TasksReturned == { k \in 1..Len(pdp_tasks) : pdp_tasks[k].outcome = Some("returned") }

\* the store as it was when the calls were gathered: each history without the
\* events of the calls that returned
StoreBefore ==
    [ i \in DOMAIN pdp_invoices |->
        LET events == pdp_invoices[i].lifecycle.history
            added == Cardinality({ k \in TasksReturned : pdp_tasks[k].invoice_id = i })
            before == SubSeq(events, 1, Len(events) - added)
        IN [ pdp_invoices[i] EXCEPT
                 !.lifecycle.history = before,
                 !.lifecycle.status = IF before = <<>> THEN "DEPOSEE"
                                      ELSE before[Len(before)].status ] ]

\* one update_status call made alone and awaited: the store after it and what
\* it raised or returned
SerialUpdate(store, task) ==
    IF task.invoice_id \notin DOMAIN store
    THEN [ store |-> store, outcome |-> "PDPNotFoundError" ]
    ELSE LET done == ManagerTransition(store[task.invoice_id].lifecycle, task.status,
                                       task.reason, None, None, pdp_clock)
         IN [ store |-> [ store EXCEPT ![task.invoice_id].lifecycle = done.manager ],
              outcome |-> IF done.kind = "ok" THEN "returned" ELSE done.kind ]

\* making the gathered calls one after the other in this order, from store,
\* gives each call the outcome it had and ends in the present store
RECURSIVE IsSerialRun(_, _)
IsSerialRun(store, order) ==
    IF order = <<>> THEN store = pdp_invoices
    ELSE LET task == pdp_tasks[order[1]]
             after == SerialUpdate(store, task)
         IN /\ task.outcome = Some(after.outcome)
            /\ IsSerialRun(after.store, Tail(order))

\* the orders in which the gathered calls can be made one after the other
TaskOrders ==
    { order \in [ 1..Len(pdp_tasks) -> 1..Len(pdp_tasks) ] :
          \A j, k \in 1..Len(pdp_tasks) : j /= k => order[j] /= order[k] }

\* no coroutine is ever suspended inside the body, and when all have ended the
\* statuses, the event lists and the outcomes are those of a sequential order
Serializable ==
    /\ \A k \in 1..Len(pdp_tasks) : pdp_tasks[k].pc \in { "lookup", "done" }
    /\ AllTasksDone => \E order \in TaskOrders : IsSerialRun(StoreBefore, order)

\* two of the gathered calls that ask the same status for the same invoice
SameTargetPairs ==
    { pair \in (1..Len(pdp_tasks)) \X (1..Len(pdp_tasks)) :
          /\ pair[1] < pair[2]
          /\ pdp_tasks[pair[1]].invoice_id = pdp_tasks[pair[2]].invoice_id
          /\ pdp_tasks[pair[1]].status = pdp_tasks[pair[2]].status }

\* the statuses of the suspension loop
LoopStatuses == { "PRISE_EN_CHARGE", "SUSPENDUE", "COMPLETEE" }

Quiescent == \A t \in Threads : threads[t].pc = "idle"

\* a call passed the validations while the other thread was between its own
\* validations and its return
Overlapped == \E n \in 1..Len(thr_log) : thr_log[n].overlapped

\* the statuses of history are a path of the graph from s0
HistoryIsPath ==
    \A k \in 1..Len(history) : history[k].status \in Elems(TRANSITIONS[StatusBefore(k)])

\* the current status is the status of the last event, s0 without event
StatusIsLast == status = RunStatuses[Len(RunStatuses)]

\* C27: transition is not atomic against a second writer.  Each call is
\* validated against the status its thread reads, and as long as no call is
\* validated while the other thread is between its validation and its return,
\* the history is a path and the status that of the last event; when two calls
\* interleave there, both can be accepted against the same old status, and
\* the history is left with consecutive statuses that are not an edge or
\* the current status differs from that of the last event (C27_Witness)
C27_Theorem ==
    /\ \A n \in 1..Len(thr_log) : thr_log[n].target \in Elems(TRANSITIONS[thr_log[n].seen])
    /\ ~ Overlapped => HistoryIsPath /\ (Quiescent => StatusIsLast)
    /\ Quiescent => Len(history) = Len(thr_log)

\* both threads have returned from calls accepted against the same old
\* status: the two events are not an edge of the graph, and the current
\* status is not the status of the last event
C27_Witness ==
    /\ Quiescent
    /\ Len(thr_log) = 2
    /\ thr_log[1].thread /= thr_log[2].thread
    /\ thr_log[1].seen = thr_log[2].seen
    /\ Len(history) = 2
    /\ history[2].status \notin Elems(TRANSITIONS[history[1].status])
    /\ status /= history[2].status

\* ------------------------------------------------------------------------
\* Properties of aggregate_transactions under reordering
\* ------------------------------------------------------------------------

\* the ways to reorder a list of n items
Reorderings(n) == { f \in [ 1..n -> 1..n ] : \A j, k \in 1..n : j /= k => f[j] /= f[k] }

\* the list seq in the order f
Reordered(seq, f) == [ k \in 1..Len(seq) |-> seq[f[k]] ]

\* C30: aggregate_transactions gives the same result for every ordering of
\* the same transactions: the same list of tax breakdowns in the same order,
\* and the same seller SIREN, operation category and VAT-on-debits flag
C30_Original ==
    Completed("aggregate_transactions") =>
        \A f \in Reorderings(Len(ErArg)) :
            aggregate_transactions(Reordered(ErArg, f), PeriodStart, PeriodEnd) = ErOut

====
